---- MODULE Spec2Model ----
(***************************************************************************)
(* A model of the peer-to-peer network core of insolar                     *)
(* (src/network/host/dht.go): the background loops started by Listen, the  *)
(* k-bucket insertion addNode, the authentication / relay handshake and    *)
(* the iterative query loop.  Each part has its own specification over     *)
(* the variables of that part (the query loop also writes the routing      *)
(* table); the variables of the other parts stay at their initial values.  *)
(***************************************************************************)
EXTENDS Integers, Sequences, FiniteSets, TLC

(***************************************************************************)
(* Bounds of the model.                                                    *)
(***************************************************************************)
\* packets the transport delivers to handlePackets in one run
MaxPackets == 2
\* ticks of the one-second ticker in one run
MaxTicks == 2

(***************************************************************************)
(* The state.                                                              *)
(***************************************************************************)
\* Part 1: Listen, Disconnect and the three background goroutines
VARIABLES
    transportState,   \* "started", "stopped" (Stopped() signalled), "closed"
    hdPc,             \* handleDisconnect: "select", "sending", "done"
    multiplexCount,   \* handleDisconnect's local multiplexCount
    hdI,              \* handleDisconnect's loop index i
    loopPc,           \* per background loop: "start", "select", "done"
    tickerStopped,    \* ticker.Stop() was called
    handled,          \* packets taken from transport.Packets()
    ticks             \* ticks taken from ticker.C

\* Part 2: the routing table of one origin and concurrent addNode calls
VARIABLES
    RoutingTable,   \* ht.RoutingTable: bucket index -> sequence of IDs, head first
    htLock,         \* the goroutine holding ht.Lock(), or NoCaller
    addPc,          \* per caller: "idle", "mark", "lock", "ping"
    addArg,         \* per caller: the ID of the node passed to addNode
    pong,           \* per caller: the ping response is in future.Result()
    addResult       \* per caller: how its last addNode ended

\* Part 3: the authentication and relay handshake between nodes
VARIABLES
    SentKeys,            \* per node: dht.auth.SentKeys, peer -> key or NoKey
    ReceivedKeys,        \* per node: dht.auth.ReceivedKeys, peer -> key or NoKey
    authenticatedNodes,  \* per node: the peers with authenticatedNodes[peer] = true
    relayClients,        \* per node: the clients of dht.relay
    proxyNodes,          \* per node: the proxy list of dht.proxy
    knownNodes,          \* per node: the contacts of its routing table
    requests,            \* request packets in flight
    responses,           \* response packets in flight
    waiting,             \* per goroutine: the request whose future it waits on
    nextKey,             \* the next key crypto/rand yields
    timeouts,            \* PacketTimeout expiries so far
    relayTrail           \* per node, while its last calls were relay requests: its
                         \* last start answered Started (the target and the proxy
                         \* list before it), and whether the stop answered Stopped
                         \* has followed

\* Part 4: one iterative query (iterate) of the origin
VARIABLES
    iterPc,              \* "idle", "send", "collect", "selected", "done", "panic"
    iterType,            \* t, the routing.IterateType
    iterTarget,          \* target, the key or node ID looked for
    routeSet,            \* the route set, a sequence of node IDs
    contacted,           \* the nodes a request was addressed to
    queryRest,           \* the local queryRest
    closestNode,         \* the local closestNode
    removeFromRouteSet,  \* the nodes SendRequest failed for, over all rounds
    futuresCount,        \* the futures of the round
    pending,             \* the response goroutines of the round still waiting
    stale,               \* the response goroutines whose resultChan is closed
    results,             \* the results selectResultChan collected
    storeSent,           \* the receivers SendRequest was called for with a STORE
    retValue,            \* the value iterate returns
    retClosest,          \* the closest list iterate returns
    valueSeen,            \* a collected response carried a value
    errored              \* history: the senders of the erroring responses of the query

\* Part 5: the bootstrapper of one node (package bootstrap)
VARIABLES
    lastPulse,        \* bc.lastPulse
    pulsePersisted,   \* bc.pulsePersisted
    bootstrapLock,    \* bc.bootstrapLock: "open", "closed", "panic" (closed twice)
    lastPulseLock,    \* the holder of bc.lastPulseLock.Lock(), or NoSetter
    setPc,            \* per SetLastPulse caller: "idle", "locked", "close", "persist"
    setArg,           \* per SetLastPulse caller: the number passed
    firstCaller,      \* the caller of the first SetLastPulse, or NoSetter
    firstNumber,      \* the number of the first SetLastPulse, or NoPulse
    closedBy,         \* the caller whose SetLastPulse closed bootstrapLock
    bdPc,             \* BootstrapDiscovery: "idle", "gate", "genesis", "force", "check", "done"
    hosts,            \* the discovery hosts that answeredHosts the Bootstrap request
    answeredHosts,         \* the hosts whose genesis response was received
    sentLastPulse,    \* the LastPulse of the genesis requests sent
    genesisResults,   \* activeNodes and lastPulses of waitGenesisResults, in order
    ownLastPulse,     \* lastPulse when BootstrapDiscovery passed the gate
    maxLastPulse,     \* the result of calculateLastIgnoredPulse
    activeNodes,      \* the NodeKeeper's active nodes: NodeID -> ShortID
    bdResult          \* what BootstrapDiscovery returned

\* Part 6: calls of circleXOR (package jetcoordinator)
VARIABLES
    xorPc,            \* "idle", "returned", "panic"
    xorValue,         \* the slice `value` after the call
    xorSrc,           \* the slice `src` after the call
    xorArgs,          \* the contents of value and src at the call
    xorResult,        \* circleXOR(value, src)
    xorAgain          \* circleXOR(circleXOR(value, src), src)

\* Part 7: calls of JetCoordinator.QueryRole
VARIABLES
    rolePc,           \* "idle", "returned"
    roleRole,         \* role
    roleObjID,        \* objID
    roleEntropy,      \* the entropy of the pulse
    roleCandidates,   \* what GetActiveNodesByRole returned, in its order
    roleResult        \* what QueryRole returned: [err, refs]

\* Part 8: calls of getExpirationTime
VARIABLES
    expPc,            \* "idle", "returned"
    expKey,           \* key
    expSizes,         \* ht.GetTotalNodesInBucket(i) per bucket i
    expCloser,        \* len(ht.GetAllNodesInBucketCloserThan(bucket, key))
    expExpiration,    \* dht.options.ExpirationTime
    expNow,           \* time.Now()
    expResult         \* the time returned

\* Part 9: one packet taken by handlePackets
VARIABLES
    fwdPc,            \* "idle", "sending", "done"
    fwdMsg,           \* msg
    fwdClients,       \* the addresses dht.relay relays for
    fwdFound,         \* what FindNode gives for the receiver of msg
    fwdOutcome,       \* what handlePackets did with msg
    fwdRequest        \* the request handed to sendRelayedRequest

\* Part 10: ExtractTarget and ExtractRole on one message
VARIABLES
    mhPc,             \* "idle", "target", "done"
    mhMsg,            \* msg
    mhTarget,         \* what ExtractTarget(msg) gave
    mhRole            \* what ExtractRole(msg) gave

\* Part 11: one call of Table.GetRandomNodes
VARIABLES
    rnPc,             \* "idle", "returned"
    rnCount,          \* count
    rnNodes,          \* t.NodeKeeper.GetActiveNodes()
    rnResult          \* the hosts returned

\* Part 12: a RecentObjectsIndex and its callers
VARIABLES
    roiPc,            \* "none" before NewRecentObjectsIndex, then "made"
    defaultTTL,       \* r.DefaultTTL
    recentObjects,    \* r.recentObjects: id -> the meta it points to, or NoMeta
    metaTTL,          \* the TTL field of every RecentObjectsIndexMeta allocated
    nextMeta,         \* the next RecentObjectsIndexMeta to allocate
    objectLock,       \* the caller that holds r.objectLock, or NoCaller
    pendingRequests,  \* r.pendingRequests
    addIDPc,          \* per caller: "idle", or "locked" inside AddID
    addIDArg,         \* per caller: the id of its AddID
    gotObjects,       \* the map the last GetObjects returned
    addedIDs,         \* history: the ids added and not cleared since
    lastAddID         \* history: what the last AddID that finished found: "none", "absent", "present", "lowered"

\* Part 13: one call of Bootstrap
VARIABLES
    bsPc,             \* "idle", "waiting", "iterateHt", "returned"
    bsTables,         \* per table of dht.tables: the contacts it holds
    bsIndex,          \* the table iterateHt is at
    bsIterated,       \* the calls of iterate made: table and target
    bsErr             \* what Bootstrap returned

\* Part 14: the accesses of the handlers to the maps of dht.auth
VARIABLES
    authMut,          \* the goroutine holding dht.auth.mut, or NoCaller
    accHandler,       \* per goroutine: the handler it runs, or "none"
    accStep,          \* per goroutine: the step of its handler it is at
    accessing         \* per goroutine: the map it is reading or writing, or "none"

\* Part 15: the request handlers of dispatchPacketType on a routing table
VARIABLES
    dpTable,          \* ht.RoutingTable
    dpMsg,            \* the last request dispatched: its type and sender
    dpResponse        \* the response sent for it

\* Part 16: the gossip of known outer nodes in the home subnet
VARIABLES
    selfKnownOuterNodes, \* per node: dht.subnet.HighKnownNodes.SelfKnownOuterNodes
    highID,              \* per node: dht.subnet.HighKnownNodes.ID
    highOuterNodes,      \* per node: dht.subnet.HighKnownNodes.OuterNodes
    konProxyNodes,       \* per node: the proxies of dht.proxy
    konPc,               \* per node: "idle", "gossip" or "waiting"
    konTodo,             \* per node: the home subnet IDs AnalyzeNetwork has yet to ask
    konMsg,              \* the KnownOuterNodes packet in flight
    konSent              \* the Auth and Relay requests sent for the last response

\* Part 17: the relay ownership offers of AnalyzeNetwork
VARIABLES
    roPc,                \* "idle", "offer", "returned" or "panicked"
    SubnetIDs,           \* dht.subnet.SubnetIDs: key -> the IDs seen there
    HomeSubnetKey,       \* dht.subnet.HomeSubnetKey
    roTodo,              \* the IDs sendRelayOwnership has yet to reach
    PossibleRelayIDs,    \* dht.subnet.PossibleRelayIDs
    roOffered,           \* the IDs relayOwnershipRequest was called for
    roAccepted           \* the IDs whose response had Accepted = true

\* Part 18: OnPulse of the phase manager
VARIABLES
    pmPc,                \* "idle", "phase" or "returned"
    pmPulse,             \* pulse.PulseNumber of the call
    pmNext,              \* the phase OnPulse is about to execute
    pmPhases,            \* the phases executed in this call, in order
    pmFailed,            \* the phases whose Execute returned an error
    pmOnPulse            \* what OnPulse returned: none yet, nil or a wrapped error

\* Part 19: FirstPhase.Execute from the exchange on
VARIABLES
    fpPc,                \* "idle", "collect", "returned" or "panicked"
    resultPackets,       \* the packets of ExchangePhase1, by sender
    fpTodo,              \* the senders the loop over resultPackets has yet to reach
    proofSet,            \* the senders with a proof in proofSet
    ValidProofs,         \* FirstPhaseState.ValidProofs, by sender
    FaultProofs          \* FirstPhaseState.FaultProofs, by sender

\* Part 20: Bootstrap and the goroutines of getDiscoveryNodesChannel
VARIABLES
    gdPc,                \* per discovery node: "none", "bootstrap", "send" or "done"
    needResponses,       \* the capacity of the channel bootstrapHosts
    bootstrapHosts,      \* the hosts in the buffer of the channel
    waitPc,              \* waitResultFromChannel: "idle", "select" or "returned"
    bootstrapHost        \* the host Bootstrap got, or NoHost

\* Part 21: the refresh sweep of selectTicker
VARIABLES
    rfPc,                \* "idle" or "sweep"
    rfNow,               \* the time, in ticks of the ticker
    refreshTimes,        \* per bucket: ht.GetRefreshTimeForBucket
    rfI,                 \* the bucket the loop of the sweep is at
    rfContacts,          \* whether the routing table holds a contact
    rfLast               \* the last refresh of this tick: the stale bucket and the target

stopVars == <<transportState, hdPc, multiplexCount, hdI, loopPc, tickerStopped,
              handled, ticks>>
tableVars == <<RoutingTable, htLock, addPc, addArg, pong, addResult>>

authVars == <<SentKeys, ReceivedKeys, authenticatedNodes, relayClients, proxyNodes,
              knownNodes, requests, responses, waiting, nextKey, timeouts,
              relayTrail>>

iterVars == <<iterPc, iterType, iterTarget, routeSet, contacted, queryRest, closestNode,
              removeFromRouteSet, futuresCount, pending, stale, results, storeSent,
              retValue, retClosest, valueSeen, errored>>

bootVars == <<lastPulse, pulsePersisted, bootstrapLock, lastPulseLock, setPc, setArg,
              firstCaller, firstNumber, closedBy, bdPc, hosts, answeredHosts,
              sentLastPulse,
              genesisResults, ownLastPulse, maxLastPulse, activeNodes, bdResult>>

xorVars == <<xorPc, xorValue, xorSrc, xorArgs, xorResult, xorAgain>>

roleVars == <<rolePc, roleRole, roleObjID, roleEntropy, roleCandidates, roleResult>>

expVars == <<expPc, expKey, expSizes, expCloser, expExpiration, expNow, expResult>>

fwdVars == <<fwdPc, fwdMsg, fwdClients, fwdFound, fwdOutcome, fwdRequest>>

mhVars == <<mhPc, mhMsg, mhTarget, mhRole>>

rnVars == <<rnPc, rnCount, rnNodes, rnResult>>

roiVars == <<roiPc, defaultTTL, recentObjects, metaTTL, nextMeta, objectLock, pendingRequests, addIDPc, addIDArg, gotObjects, addedIDs, lastAddID>>

bsVars == <<bsPc, bsTables, bsIndex, bsIterated, bsErr>>

accVars == <<authMut, accHandler, accStep, accessing>>

dpVars == <<dpTable, dpMsg, dpResponse>>

konVars == <<selfKnownOuterNodes, highID, highOuterNodes, konProxyNodes, konPc, konTodo, konMsg, konSent>>

roVars == <<roPc, SubnetIDs, HomeSubnetKey, roTodo, PossibleRelayIDs, roOffered, roAccepted>>

pmVars == <<pmPc, pmPulse, pmNext, pmPhases, pmFailed, pmOnPulse>>

fpVars == <<fpPc, resultPackets, fpTodo, proofSet, ValidProofs, FaultProofs>>

gdVars == <<gdPc, needResponses, bootstrapHosts, waitPc, bootstrapHost>>

rfVars == <<rfPc, rfNow, refreshTimes, rfI, rfContacts, rfLast>>

vars == <<stopVars, tableVars, authVars, iterVars, bootVars, xorVars, roleVars, expVars, fwdVars, mhVars, rnVars, roiVars, bsVars, accVars, dpVars, konVars, roVars, pmVars, fpVars, gdVars, rfVars>>

\* what the actions of one part leave alone
notStop == <<tableVars, authVars, iterVars, bootVars, xorVars, roleVars, expVars, fwdVars, mhVars, rnVars, roiVars, bsVars, accVars, dpVars, konVars, roVars, pmVars, fpVars, gdVars, rfVars>>
notTable == <<stopVars, authVars, iterVars, bootVars, xorVars, roleVars, expVars, fwdVars, mhVars, rnVars, roiVars, bsVars, accVars, dpVars, konVars, roVars, pmVars, fpVars, gdVars, rfVars>>
notAuth == <<stopVars, tableVars, iterVars, bootVars, xorVars, roleVars, relayTrail, expVars, fwdVars, mhVars, rnVars, roiVars, bsVars, accVars, dpVars, konVars, roVars, pmVars, fpVars, gdVars, rfVars>>
\* the calls of the API goroutine and the timeout of a request write relayTrail
notAuthRelay == <<stopVars, tableVars, iterVars, bootVars, xorVars, roleVars, expVars, fwdVars, mhVars, rnVars, roiVars, bsVars, accVars, dpVars, konVars, roVars, pmVars, fpVars, gdVars, rfVars>>
\* Part 4 writes the routing table
notIter == <<stopVars, authVars, htLock, addPc, addArg, pong, addResult, bootVars, xorVars, roleVars, expVars, fwdVars, mhVars, rnVars, roiVars, bsVars, accVars, dpVars, konVars, roVars, pmVars, fpVars, gdVars, rfVars>>
notBoot == <<stopVars, tableVars, authVars, iterVars, xorVars, roleVars, expVars, fwdVars, mhVars, rnVars, roiVars, bsVars, accVars, dpVars, konVars, roVars, pmVars, fpVars, gdVars, rfVars>>
notXor == <<stopVars, tableVars, authVars, iterVars, bootVars, roleVars, expVars, fwdVars, mhVars, rnVars, roiVars, bsVars, accVars, dpVars, konVars, roVars, pmVars, fpVars, gdVars, rfVars>>
notRole == <<stopVars, tableVars, authVars, iterVars, bootVars, xorVars, expVars, fwdVars, mhVars, rnVars, roiVars, bsVars, accVars, dpVars, konVars, roVars, pmVars, fpVars, gdVars, rfVars>>
notExp == <<stopVars, tableVars, authVars, iterVars, bootVars, xorVars, roleVars, fwdVars, mhVars, rnVars, roiVars, bsVars, accVars, dpVars, konVars, roVars, pmVars, fpVars, gdVars, rfVars>>
notFwd == <<stopVars, tableVars, authVars, iterVars, bootVars, xorVars, roleVars, expVars, mhVars, rnVars, roiVars, bsVars, accVars, dpVars, konVars, roVars, pmVars, fpVars, gdVars, rfVars>>
notMh == <<stopVars, tableVars, authVars, iterVars, bootVars, xorVars, roleVars, expVars, fwdVars, rnVars, roiVars, bsVars, accVars, dpVars, konVars, roVars, pmVars, fpVars, gdVars, rfVars>>
notRn == <<stopVars, tableVars, authVars, iterVars, bootVars, xorVars, roleVars, expVars, fwdVars, mhVars, roiVars, bsVars, accVars, dpVars, konVars, roVars, pmVars, fpVars, gdVars, rfVars>>
notRoi == <<stopVars, tableVars, authVars, iterVars, bootVars, xorVars, roleVars, expVars, fwdVars, mhVars, rnVars, bsVars, accVars, dpVars, konVars, roVars, pmVars, fpVars, gdVars, rfVars>>
notBs == <<stopVars, tableVars, authVars, iterVars, bootVars, xorVars, roleVars, expVars, fwdVars, mhVars, rnVars, roiVars, accVars, dpVars, konVars, roVars, pmVars, fpVars, gdVars, rfVars>>
notAcc == <<stopVars, tableVars, authVars, iterVars, bootVars, xorVars, roleVars, expVars, fwdVars, mhVars, rnVars, roiVars, bsVars, dpVars, konVars, roVars, pmVars, fpVars, gdVars, rfVars>>
notDp == <<stopVars, tableVars, authVars, iterVars, bootVars, xorVars, roleVars, expVars, fwdVars, mhVars, rnVars, roiVars, bsVars, accVars, konVars, roVars, pmVars, fpVars, gdVars, rfVars>>
notKon == <<stopVars, tableVars, authVars, iterVars, bootVars, xorVars, roleVars, expVars, fwdVars, mhVars, rnVars, roiVars, bsVars, accVars, dpVars, roVars, pmVars, fpVars, gdVars, rfVars>>
notRo == <<stopVars, tableVars, authVars, iterVars, bootVars, xorVars, roleVars, expVars, fwdVars, mhVars, rnVars, roiVars, bsVars, accVars, dpVars, konVars, pmVars, fpVars, gdVars, rfVars>>
notPm == <<stopVars, tableVars, authVars, iterVars, bootVars, xorVars, roleVars, expVars, fwdVars, mhVars, rnVars, roiVars, bsVars, accVars, dpVars, konVars, roVars, fpVars, gdVars, rfVars>>
notFp == <<stopVars, tableVars, authVars, iterVars, bootVars, xorVars, roleVars, expVars, fwdVars, mhVars, rnVars, roiVars, bsVars, accVars, dpVars, konVars, roVars, pmVars, gdVars, rfVars>>
notGd == <<stopVars, tableVars, authVars, iterVars, bootVars, xorVars, roleVars, expVars, fwdVars, mhVars, rnVars, roiVars, bsVars, accVars, dpVars, konVars, roVars, pmVars, fpVars, rfVars>>
notRf == <<stopVars, tableVars, authVars, iterVars, bootVars, xorVars, roleVars, expVars, fwdVars, mhVars, rnVars, roiVars, bsVars, accVars, dpVars, konVars, roVars, pmVars, fpVars, gdVars>>

(***************************************************************************)
(* Part 1: Listen, Disconnect and the three background goroutines.         *)
(***************************************************************************)

Loops == {"handlePackets", "handleStoreTimers"}

\* Listen: the three goroutines are started, then the transport.
InitStop ==
    /\ transportState = "started"
    /\ hdPc = "select"
    /\ multiplexCount = 0
    /\ hdI = 0
    /\ loopPc = [l \in Loops |-> "start"]
    /\ tickerStopped = FALSE
    /\ handled = 0
    /\ ticks = 0

\* Disconnect: transport.Stop() makes Stopped() ready.
Disconnect ==
    /\ transportState = "started"
    /\ transportState' = "stopped"
    /\ UNCHANGED <<hdPc, multiplexCount, hdI, loopPc, tickerStopped, handled, ticks>>
    /\ UNCHANGED notStop

\* `start <- true` of a loop meeting `case <-start` of handleDisconnect
\* (the channel is unbuffered: both sides move in one step).
LoopStart(l) ==
    /\ loopPc[l] = "start"
    /\ hdPc = "select"
    /\ multiplexCount' = multiplexCount + 1
    /\ loopPc' = [loopPc EXCEPT ![l] = "select"]
    /\ UNCHANGED <<transportState, hdPc, hdI, tickerStopped, handled, ticks>>
    /\ UNCHANGED notStop

\* handleDisconnect: `case <-dht.transport.Stopped()`.
HandleDisconnectStopped ==
    /\ hdPc = "select"
    /\ transportState = "stopped"
    /\ hdPc' = "sending"
    /\ hdI' = 0
    /\ UNCHANGED <<transportState, multiplexCount, loopPc, tickerStopped, handled, ticks>>
    /\ UNCHANGED notStop

\* What a loop does when its select takes `case <-stop`:
\* handlePackets returns; selectTicker stops the ticker and returns to the
\* `for` of handleStoreTimers, which calls selectTicker again.
AfterStop(l) == IF l = "handlePackets" THEN "done" ELSE "select"

\* `stop <- true` of handleDisconnect meeting `case <-stop` of a loop.
SendStop(l) ==
    /\ hdPc = "sending"
    /\ hdI < multiplexCount
    /\ loopPc[l] = "select"
    /\ loopPc' = [loopPc EXCEPT ![l] = AfterStop(l)]
    /\ tickerStopped' = (tickerStopped \/ l = "handleStoreTimers")
    /\ hdI' = hdI + 1
    /\ UNCHANGED <<transportState, hdPc, multiplexCount, handled, ticks>>
    /\ UNCHANGED notStop

\* handleDisconnect: the for loop is over, dht.transport.Close(), return.
HandleDisconnectClose ==
    /\ hdPc = "sending"
    /\ hdI = multiplexCount
    /\ transportState' = "closed"
    /\ hdPc' = "done"
    /\ UNCHANGED <<multiplexCount, hdI, loopPc, tickerStopped, handled, ticks>>
    /\ UNCHANGED notStop

\* handlePackets: `case msg := <-dht.transport.Packets()`; the dispatch of
\* the packet is the subject of Part 3, here it is counted.
HandlePacket ==
    /\ loopPc["handlePackets"] = "select"
    /\ transportState # "closed"
    /\ handled < MaxPackets
    /\ handled' = handled + 1
    /\ UNCHANGED <<transportState, hdPc, multiplexCount, hdI, loopPc, tickerStopped, ticks>>
    /\ UNCHANGED notStop

\* selectTicker: `case <-ticker.C` (refresh, replication, expiration).
\* A stopped ticker delivers no more ticks.
TimerTick ==
    /\ loopPc["handleStoreTimers"] = "select"
    /\ ~tickerStopped
    /\ ticks < MaxTicks
    /\ ticks' = ticks + 1
    /\ UNCHANGED <<transportState, hdPc, multiplexCount, hdI, loopPc, tickerStopped, handled>>
    /\ UNCHANGED notStop

NextStop ==
    \/ Disconnect
    \/ \E l \in Loops : LoopStart(l)
    \/ HandleDisconnectStopped
    \/ \E l \in Loops : SendStop(l)
    \/ HandleDisconnectClose
    \/ HandlePacket
    \/ TimerTick

(***************************************************************************)
(* Part 2: the routing table of one origin and concurrent addNode calls.   *)
(***************************************************************************)
\* bits of a node ID in the model (routing.KeyBitSize)
KeyBitSize == 3
\* contacts a bucket holds (routing.MaxContactsInBucket)
MaxContactsInBucket == 2

\* the local origin ID and the IDs of the contacts offered to addNode
OriginID == 0
Contacts == {4, 5, 6, 7}
\* goroutines that call addNode: response goroutines of iterate and of
\* Bootstrap, the packet loop, RPC callers
Callers == {"g1", "g2"}
NoCaller == "none"


RECURSIVE Pow2(_)
Pow2(i) == IF i = 0 THEN 1 ELSE 2 * Pow2(i - 1)

Bit(x, i) == (x \div Pow2(i)) % 2

\* routing.GetBucketIndexFromDifferingBit: KeyBitSize - 1 - (position, MSB
\* first, of the first differing bit); 0 for equal IDs.
GetBucketIndexFromDifferingBit(id1, id2) ==
    IF id1 = id2 THEN 0
    ELSE CHOOSE i \in 0..(KeyBitSize - 1) :
            /\ Bit(id1, i) # Bit(id2, i)
            /\ \A j \in (i + 1)..(KeyBitSize - 1) : Bit(id1, j) = Bit(id2, j)

InSeq(s, x) == \E i \in 1..Len(s) : s[i] = x

RemoveAt(s, i) == SubSeq(s, 1, i - 1) \o SubSeq(s, i + 1, Len(s))

\* ht.DoesNodeExistInBucket(index, id)
DoesNodeExistInBucket(index, id) == InSeq(RoutingTable[index], id)

\* ht.MarkNodeAsSeen(id): the contact moves to the tail of its bucket.
MarkNodeAsSeen(bucket, id) ==
    IF InSeq(bucket, id)
    THEN LET i == CHOOSE k \in 1..Len(bucket) :
                      bucket[k] = id /\ \A m \in 1..(k - 1) : bucket[m] # id
         IN  Append(RemoveAt(bucket, i), id)
    ELSE bucket

\* addNode, bucket full, no ping response (or the ping could not be sent):
\* bucket = bucket[1:]; bucket = append(bucket, node)
EvictHeadAppendKeepsHead(bucket, id) == Append(SubSeq(bucket, 1, Len(bucket) - 1), id)

EvictHeadAppend(bucket, id) == Append(Tail(bucket), id)

InitTable ==
    /\ RoutingTable = [i \in 0..(KeyBitSize - 1) |-> <<>>]
    /\ htLock = NoCaller
    /\ addPc = [g \in Callers |-> "idle"]
    /\ addArg = [g \in Callers |-> OriginID]
    /\ pong = [g \in Callers |-> FALSE]
    /\ addResult = [g \in Callers |-> "none"]

IndexOf(id) == GetBucketIndexFromDifferingBit(OriginID, id)

\* addNode(ctx, node) up to `if ht.DoesNodeExistInBucket(...)`.
AddNodeCheck(g, id) ==
    /\ addPc[g] = "idle"
    /\ htLock = NoCaller
    /\ addArg' = [addArg EXCEPT ![g] = id]
    /\ addPc' = [addPc EXCEPT ![g] =
                    IF DoesNodeExistInBucket(IndexOf(id), id) THEN "mark" ELSE "lock"]
    /\ addResult' = [addResult EXCEPT ![g] = "none"]
    /\ pong' = [pong EXCEPT ![g] = FALSE]
    /\ UNCHANGED <<RoutingTable, htLock>>
    /\ UNCHANGED notTable

\* ht.MarkNodeAsSeen(node.ID); return
AddNodeMark(g) ==
    /\ addPc[g] = "mark"
    /\ htLock = NoCaller
    /\ RoutingTable' = [RoutingTable EXCEPT ![IndexOf(addArg[g])] =
                            MarkNodeAsSeen(@, addArg[g])]
    /\ addPc' = [addPc EXCEPT ![g] = "idle"]
    /\ addResult' = [addResult EXCEPT ![g] = "seen"]
    /\ UNCHANGED <<htLock, addArg, pong>>
    /\ UNCHANGED notTable

\* ht.Lock(); the bucket has room: append, unlock.
AddNodeAppend(g) ==
    /\ addPc[g] = "lock"
    /\ htLock = NoCaller
    /\ Len(RoutingTable[IndexOf(addArg[g])]) # MaxContactsInBucket
    /\ RoutingTable' = [RoutingTable EXCEPT ![IndexOf(addArg[g])] = Append(@, addArg[g])]
    /\ addPc' = [addPc EXCEPT ![g] = "idle"]
    /\ addResult' = [addResult EXCEPT ![g] = "appended"]
    /\ UNCHANGED <<htLock, addArg, pong>>
    /\ UNCHANGED notTable

\* ht.Lock(); the bucket is full and the ping of the head is sent: the
\* caller waits in the select, holding the lock.
AddNodePingHead(g) ==
    /\ addPc[g] = "lock"
    /\ htLock = NoCaller
    /\ Len(RoutingTable[IndexOf(addArg[g])]) = MaxContactsInBucket
    /\ htLock' = g
    /\ addPc' = [addPc EXCEPT ![g] = "ping"]
    /\ UNCHANGED <<RoutingTable, addArg, pong, addResult>>
    /\ UNCHANGED notTable

\* ht.Lock(); the bucket is full and transport.SendRequest returns an
\* error: the head is dropped and the node appended at once.
AddNodePingUnsent(g) ==
    /\ addPc[g] = "lock"
    /\ htLock = NoCaller
    /\ Len(RoutingTable[IndexOf(addArg[g])]) = MaxContactsInBucket
    /\ RoutingTable' = [RoutingTable EXCEPT ![IndexOf(addArg[g])] =
                            EvictHeadAppend(@, addArg[g])]
    /\ addPc' = [addPc EXCEPT ![g] = "idle"]
    /\ addResult' = [addResult EXCEPT ![g] = "unsent"]
    /\ UNCHANGED <<htLock, addArg, pong>>
    /\ UNCHANGED notTable

\* The head answers the ping: the response reaches future.Result().
PingResponseArrives(g) ==
    /\ addPc[g] = "ping"
    /\ ~pong[g]
    /\ pong' = [pong EXCEPT ![g] = TRUE]
    /\ UNCHANGED <<RoutingTable, htLock, addPc, addArg, addResult>>
    /\ UNCHANGED notTable

\* `case <-future.Result(): return` (the deferred Unlock runs).
AddNodePong(g) ==
    /\ addPc[g] = "ping"
    /\ pong[g]
    /\ htLock' = NoCaller
    /\ addPc' = [addPc EXCEPT ![g] = "idle"]
    /\ addResult' = [addResult EXCEPT ![g] = "kept"]
    /\ UNCHANGED <<RoutingTable, addArg, pong>>
    /\ UNCHANGED notTable

\* `case <-time.After(dht.options.PingTimeout)`: no response came.
AddNodePingTimeout(g) ==
    /\ addPc[g] = "ping"
    /\ ~pong[g]
    /\ RoutingTable' = [RoutingTable EXCEPT ![IndexOf(addArg[g])] =
                            EvictHeadAppend(@, addArg[g])]
    /\ htLock' = NoCaller
    /\ addPc' = [addPc EXCEPT ![g] = "idle"]
    /\ addResult' = [addResult EXCEPT ![g] = "evicted"]
    /\ UNCHANGED <<addArg, pong>>
    /\ UNCHANGED notTable

NextTable ==
    \/ \E g \in Callers, id \in Contacts : AddNodeCheck(g, id)
    \/ \E g \in Callers : AddNodeMark(g)
    \/ \E g \in Callers : AddNodeAppend(g)
    \/ \E g \in Callers : AddNodePingHead(g)
    \/ \E g \in Callers : AddNodePingUnsent(g)
    \/ \E g \in Callers : PingResponseArrives(g)
    \/ \E g \in Callers : AddNodePong(g)
    \/ \E g \in Callers : AddNodePingTimeout(g)

(***************************************************************************)
(* Part 3: Auth(Begin / Revoke), CheckOrigin and Relay(Start / Stop)       *)
(* between nodes that each run a packet loop (handlePackets) and one       *)
(* goroutine calling AuthenticationRequest, CheckOriginRequest and         *)
(* RelayRequest.                                                           *)
(***************************************************************************)
\* keys crypto/rand yields in one run: key k is the k-th 512-byte key drawn,
\* two draws never give the same key
MaxKeys == 1
\* PacketTimeout expiries in one run
MaxTimeouts == 1

Nodes == {"A", "B"}
Keys == 1..MaxKeys
\* no entry in SentKeys / ReceivedKeys, a nil AuthUniqueKey
NoKey == 0
Goroutines == {"api", "loop"}
Idle == [type |-> "none", to |-> "none", cmd |-> "none"]

\* bytes.Equal(response.AuthUniqueKey, dht.auth.SentKeys[targetID]):
\* a missing map entry is a nil slice, equal to a nil or empty key
KeysEqualAlways(key, sent) == TRUE

KeysEqual(key, sent) == key = sent

\* processRelay: dht.auth.authenticatedNodes[msg.Sender.ID.HashString()]
SenderAuthenticatedAlways(n, sender) == TRUE

SenderAuthenticated(n, sender) == sender \in authenticatedNodes[n]

\* FindNode(ctx, targetID) in a network of the nodes of the model: the
\* target is found if and only if it is a contact of the routing table
FindNode(n, target) == target \in knownNodes[n]

Request(from, g, to, type, cmd) ==
    [from |-> from, g |-> g, to |-> to, type |-> type, cmd |-> cmd, live |-> TRUE]

Response(req, ok, key, state, by) ==
    [from |-> req.to, to |-> req.from, g |-> req.g, type |-> req.type,
     ok |-> ok, key |-> key, state |-> state, by |-> by]

\* transport.SendResponse: the response travels unless the future of the
\* request was cancelled
SendResponse(req, rsp) == IF req.live THEN {rsp} ELSE {}

\* no start answered Started precedes the next relay request
NoTrail == [step |-> "none", to |-> "none", before |-> {}]

\* the proxy list with the target added whatever the state of the response
ProxyNodesAdded(list, state, target) == list \cup {target}

\* handleRelayResponse: dht.proxy.RemoveProxyNode(targetID) on Stopped,
\* dht.proxy.AddProxyNode(targetID) on Started
ProxyNodesAfter(list, state, target) ==
    IF state = "Stopped" THEN list \ {target}
    ELSE IF state = "Started" THEN list \cup {target}
    ELSE list

\* handleRelayResponse: the error returned for the state of the response,
\* which RelayRequest returns
RelayError(state) ==
    CASE state = "Stopped" -> "nil"
      [] state = "Started" -> "nil"
      [] state = "NoAuth" -> "unable to execute relay because this node not authenticated"
      [] state = "Unknown" -> "unknown relay command"
      [] state = "Error" -> "relay request error"
      [] OTHER -> "unknown response state"

InitAuth ==
    /\ SentKeys = [n \in Nodes |-> [m \in Nodes |-> NoKey]]
    /\ ReceivedKeys = [n \in Nodes |-> [m \in Nodes |-> NoKey]]
    /\ authenticatedNodes = [n \in Nodes |-> {}]
    /\ relayClients = [n \in Nodes |-> {}]
    /\ proxyNodes = [n \in Nodes |-> {}]
    /\ knownNodes \in [Nodes -> SUBSET Nodes]
    /\ \A n \in Nodes : n \notin knownNodes[n]
    /\ requests = {}
    /\ responses = {}
    /\ waiting = [n \in Nodes |-> [g \in Goroutines |-> Idle]]
    /\ nextKey = 1
    /\ timeouts = 0
    /\ relayTrail = [n \in Nodes |-> NoTrail]

\* AuthenticationRequest(ctx, command, targetID) up to the select.
AuthenticationRequest(n, command, target) ==
    /\ waiting[n]["api"] = Idle
    /\ FindNode(n, target)
    /\ requests' = requests \cup {Request(n, "api", target, "Auth", command)}
    /\ waiting' = [waiting EXCEPT ![n]["api"] =
                      [type |-> "Auth", to |-> target, cmd |-> command]]
    /\ relayTrail' = [relayTrail EXCEPT ![n] = NoTrail]
    /\ UNCHANGED <<SentKeys, ReceivedKeys, authenticatedNodes, relayClients, proxyNodes,
                   knownNodes, responses, nextKey, timeouts>>
    /\ UNCHANGED notAuthRelay

\* RelayRequest(ctx, command, targetID) up to the select.
RelayRequest(n, command, target) ==
    /\ waiting[n]["api"] = Idle
    /\ FindNode(n, target)
    /\ requests' = requests \cup {Request(n, "api", target, "Relay", command)}
    /\ waiting' = [waiting EXCEPT ![n]["api"] =
                      [type |-> "Relay", to |-> target, cmd |-> command]]
    /\ relayTrail' = IF command = "stop" /\ relayTrail[n].step = "started"
                        /\ relayTrail[n].to = target
                     THEN relayTrail
                     ELSE [relayTrail EXCEPT ![n] = NoTrail]
    /\ UNCHANGED <<SentKeys, ReceivedKeys, authenticatedNodes, relayClients, proxyNodes,
                   knownNodes, responses, nextKey, timeouts>>
    /\ UNCHANGED notAuthRelay

\* CheckOriginRequest(ctx, targetID) up to the select, called directly.
CheckOriginRequest(n, target) ==
    /\ waiting[n]["api"] = Idle
    /\ FindNode(n, target)
    /\ requests' = requests \cup {Request(n, "api", target, "CheckOrigin", "none")}
    /\ waiting' = [waiting EXCEPT ![n]["api"] =
                      [type |-> "CheckOrigin", to |-> target, cmd |-> "none"]]
    /\ relayTrail' = [relayTrail EXCEPT ![n] = NoTrail]
    /\ UNCHANGED <<SentKeys, ReceivedKeys, authenticatedNodes, relayClients, proxyNodes,
                   knownNodes, responses, nextKey, timeouts>>
    /\ UNCHANGED notAuthRelay

\* processAuthentication, BeginAuth, sender already authenticated.
ProcessAuthBeginRefused(n) == \E req \in requests :
    /\ req.to = n /\ req.type = "Auth" /\ req.cmd = "begin"
    /\ waiting[n]["loop"] = Idle
    /\ req.from \in authenticatedNodes[n]
    /\ requests' = requests \ {req}
    /\ responses' = responses \cup SendResponse(req, Response(req, FALSE, NoKey, "none", "code"))
    /\ UNCHANGED <<SentKeys, ReceivedKeys, authenticatedNodes, relayClients, proxyNodes,
                   knownNodes, waiting, nextKey, timeouts>>
    /\ UNCHANGED notAuth

\* processAuthentication, BeginAuth: a new key is stored in SentKeys and
\* returned, then CheckOriginRequest(ctx, sender) runs in the packet loop up
\* to its select (or returns at once when FindNode does not find the sender).
ProcessAuthBegin(n) == \E req \in requests :
    /\ req.to = n /\ req.type = "Auth" /\ req.cmd = "begin"
    /\ waiting[n]["loop"] = Idle
    /\ req.from \notin authenticatedNodes[n]
    /\ nextKey <= MaxKeys
    /\ nextKey' = nextKey + 1
    /\ SentKeys' = [SentKeys EXCEPT ![n][req.from] = nextKey]
    /\ responses' = responses \cup SendResponse(req, Response(req, TRUE, nextKey, "none", "code"))
    /\ IF FindNode(n, req.from)
       THEN /\ requests' = (requests \ {req})
                            \cup {Request(n, "loop", req.from, "CheckOrigin", "none")}
            /\ waiting' = [waiting EXCEPT ![n]["loop"] =
                              [type |-> "CheckOrigin", to |-> req.from, cmd |-> "none"]]
       ELSE /\ requests' = requests \ {req}
            /\ UNCHANGED waiting
    /\ UNCHANGED <<ReceivedKeys, authenticatedNodes, relayClients, proxyNodes,
                   knownNodes, timeouts>>
    /\ UNCHANGED notAuth

\* processAuthentication, RevokeAuth.
ProcessAuthRevoke(n) == \E req \in requests :
    /\ req.to = n /\ req.type = "Auth" /\ req.cmd = "revoke"
    /\ waiting[n]["loop"] = Idle
    /\ authenticatedNodes' = [authenticatedNodes EXCEPT ![n] = @ \ {req.from}]
    /\ requests' = requests \ {req}
    /\ responses' = responses \cup SendResponse(req, Response(req, TRUE, NoKey, "none", "code"))
    /\ UNCHANGED <<SentKeys, ReceivedKeys, relayClients, proxyNodes, knownNodes, waiting,
                   nextKey, timeouts>>
    /\ UNCHANGED notAuth

\* processCheckOriginRequest: the key received from the sender is returned;
\* without one nothing is sent.
ProcessCheckOriginRequest(n) == \E req \in requests :
    /\ req.to = n /\ req.type = "CheckOrigin"
    /\ waiting[n]["loop"] = Idle
    /\ requests' = requests \ {req}
    /\ responses' = IF ReceivedKeys[n][req.from] # NoKey
                    THEN responses \cup SendResponse(req,
                            Response(req, TRUE, ReceivedKeys[n][req.from], "none", "code"))
                    ELSE responses
    /\ UNCHANGED <<SentKeys, ReceivedKeys, authenticatedNodes, relayClients, proxyNodes,
                   knownNodes, waiting, nextKey, timeouts>>
    /\ UNCHANGED notAuth

\* relay.AddClient / relay.RemoveClient and the state processRelay answers
RelayState(n, sender, cmd) ==
    IF cmd = "start" THEN (IF sender \in relayClients[n] THEN "Error" ELSE "Started")
    ELSE IF cmd = "stop" THEN (IF sender \in relayClients[n] THEN "Stopped" ELSE "Error")
    ELSE "Unknown"

RelayClientsAfter(n, sender, cmd) ==
    IF cmd = "start" THEN relayClients[n] \cup {sender}
    ELSE IF cmd = "stop" THEN relayClients[n] \ {sender}
    ELSE relayClients[n]

\* processRelay.
ProcessRelay(n) == \E req \in requests :
    /\ req.to = n /\ req.type = "Relay"
    /\ waiting[n]["loop"] = Idle
    /\ requests' = requests \ {req}
    /\ IF ~SenderAuthenticated(n, req.from)
       THEN /\ responses' = responses \cup
                    SendResponse(req, Response(req, FALSE, NoKey, "NoAuth", "code"))
            /\ UNCHANGED <<knownNodes, relayClients>>
       ELSE /\ knownNodes' = [knownNodes EXCEPT ![n] = @ \cup {req.from}]
            /\ relayClients' = [relayClients EXCEPT ![n] =
                                    RelayClientsAfter(n, req.from, req.cmd)]
            /\ responses' = responses \cup
                    SendResponse(req, Response(req, TRUE, NoKey,
                                               RelayState(n, req.from, req.cmd), "code"))
    /\ UNCHANGED <<SentKeys, ReceivedKeys, authenticatedNodes, proxyNodes, waiting,
                   nextKey, timeouts>>
    /\ UNCHANGED notAuth

\* the response the goroutine g of node n waits for
IsAnswer(rsp, n, g) ==
    /\ rsp \in responses /\ rsp.to = n /\ rsp.g = g
    /\ waiting[n][g] # Idle
    /\ rsp.type = waiting[n][g].type /\ rsp.from = waiting[n][g].to

\* AuthenticationRequest from `case rsp := <-future.Result()`:
\* handleAuthResponse.
HandleAuthResponse(n) == \E rsp \in responses :
    /\ IsAnswer(rsp, n, "api") /\ rsp.type = "Auth"
    /\ responses' = responses \ {rsp}
    /\ waiting' = [waiting EXCEPT ![n]["api"] = Idle]
    /\ ReceivedKeys' = IF rsp.key # NoKey /\ rsp.ok
                       THEN [ReceivedKeys EXCEPT ![n][rsp.from] = rsp.key]
                       ELSE ReceivedKeys
    /\ UNCHANGED <<SentKeys, authenticatedNodes, relayClients, proxyNodes, knownNodes,
                   requests, nextKey, timeouts>>
    /\ UNCHANGED notAuth

\* CheckOriginRequest from `case rsp := <-future.Result()`:
\* handleCheckOriginResponse.
HandleCheckOriginResponse(n, g) == \E rsp \in responses :
    /\ IsAnswer(rsp, n, g) /\ rsp.type = "CheckOrigin"
    /\ responses' = responses \ {rsp}
    /\ waiting' = [waiting EXCEPT ![n][g] = Idle]
    /\ IF KeysEqual(rsp.key, SentKeys[n][rsp.from])
       THEN /\ SentKeys' = [SentKeys EXCEPT ![n][rsp.from] = NoKey]
            /\ authenticatedNodes' = [authenticatedNodes EXCEPT ![n] = @ \cup {rsp.from}]
       ELSE UNCHANGED <<SentKeys, authenticatedNodes>>
    /\ UNCHANGED <<ReceivedKeys, relayClients, proxyNodes, knownNodes, requests,
                   nextKey, timeouts>>
    /\ UNCHANGED notAuth

\* RelayRequest from `case rsp := <-future.Result()`: handleRelayResponse.
HandleRelayResponse(n) == \E rsp \in responses :
    /\ IsAnswer(rsp, n, "api") /\ rsp.type = "Relay"
    /\ responses' = responses \ {rsp}
    /\ waiting' = [waiting EXCEPT ![n]["api"] = Idle]
    /\ proxyNodes' = [proxyNodes EXCEPT ![n] = ProxyNodesAfter(@, rsp.state, rsp.from)]
    /\ relayTrail' = [relayTrail EXCEPT ![n] =
                        IF rsp.state = "Started"
                        THEN [step |-> "started", to |-> rsp.from, before |-> proxyNodes[n]]
                        ELSE IF rsp.state = "Stopped" /\ relayTrail[n].step = "started"
                        THEN [relayTrail[n] EXCEPT !.step = "stopped"]
                        ELSE NoTrail]
    /\ UNCHANGED <<SentKeys, ReceivedKeys, authenticatedNodes, relayClients, knownNodes,
                   requests, nextKey, timeouts>>
    /\ UNCHANGED notAuthRelay

\* `case <-time.After(dht.options.PacketTimeout)`: future.Cancel(), the
\* call returns an error; a response to the cancelled future is dropped.
PacketTimeout(n, g) ==
    /\ waiting[n][g] # Idle
    /\ timeouts < MaxTimeouts
    /\ timeouts' = timeouts + 1
    /\ waiting' = [waiting EXCEPT ![n][g] = Idle]
    /\ requests' = {IF r.from = n /\ r.g = g THEN [r EXCEPT !.live = FALSE] ELSE r :
                        r \in requests}
    /\ responses' = {r \in responses : ~(r.to = n /\ r.g = g)}
    /\ relayTrail' = IF waiting[n][g].type = "Relay"
                     THEN [relayTrail EXCEPT ![n] = NoTrail]
                     ELSE relayTrail
    /\ UNCHANGED <<SentKeys, ReceivedKeys, authenticatedNodes, relayClients, proxyNodes,
                   knownNodes, nextKey>>
    /\ UNCHANGED notAuthRelay

\* A peer that does not run this code answers a CheckOrigin request with a
\* key of its choice, or with none.
ForeignCheckOriginResponse(n, key) == \E req \in requests :
    /\ req.to = n /\ req.type = "CheckOrigin"
    /\ requests' = requests \ {req}
    /\ responses' = responses \cup SendResponse(req, Response(req, TRUE, key, "none", "foreign"))
    /\ UNCHANGED <<SentKeys, ReceivedKeys, authenticatedNodes, relayClients, proxyNodes,
                   knownNodes, waiting, nextKey, timeouts>>
    /\ UNCHANGED notAuth

NextAuth ==
    \/ \E n, t \in Nodes, c \in {"begin", "revoke"} : AuthenticationRequest(n, c, t)
    \/ \E n, t \in Nodes, c \in {"start", "stop"} : RelayRequest(n, c, t)
    \/ \E n, t \in Nodes : CheckOriginRequest(n, t)
    \/ \E n \in Nodes : ProcessAuthBeginRefused(n)
    \/ \E n \in Nodes : ProcessAuthBegin(n)
    \/ \E n \in Nodes : ProcessAuthRevoke(n)
    \/ \E n \in Nodes : ProcessCheckOriginRequest(n)
    \/ \E n \in Nodes : ProcessRelay(n)
    \/ \E n \in Nodes : HandleAuthResponse(n)
    \/ \E n \in Nodes, g \in Goroutines : HandleCheckOriginResponse(n, g)
    \/ \E n \in Nodes : HandleRelayResponse(n)
    \/ \E n \in Nodes, g \in Goroutines : PacketTimeout(n, g)

NextAuthOpen ==
    \/ NextAuth
    \/ \E n \in Nodes, key \in Keys \cup {NoKey} : ForeignCheckOriginResponse(n, key)

(***************************************************************************)
(* Part 4: the iterative query loop (iterate) behind Store, Get, FindNode  *)
(* and Bootstrap, on the routing table of Part 2.  The refresh times of    *)
(* the buckets are not part of the model.                                  *)
(***************************************************************************)
\* requests of one round (routing.ParallelCalls); as in the program, where
\* they are 3 and 20, it is less than MaxContactsInBucket
ParallelCalls == 1

\* the IDs of the other nodes of the network
Peers == {1, 2, 3, 4}
\* the key or node ID a query looks for: the ID of a peer, or of no peer
Targets == {1, 7}
IterateTypes == {"IterateStore", "IterateFindNode", "IterateFindValue", "IterateBootstrap"}
\* a nil []byte, and the data stored under the key
NoValue == "nil"
Data == "data"

Min(a, b) == IF a < b THEN a ELSE b

Range(s) == {s[i] : i \in 1..Len(s)}

FirstN(s, n) == SubSeq(s, 1, Min(n, Len(s)))

RECURSIVE XorUpTo(_, _, _)
XorUpTo(a, b, i) ==
    IF i < 0 THEN 0
    ELSE (IF Bit(a, i) # Bit(b, i) THEN Pow2(i) ELSE 0) + XorUpTo(a, b, i - 1)

\* the node IDs of KeyBitSize bits
IDs == 0..(Pow2(KeyBitSize) - 1)

\* the XOR distance of any two IDs
Distances == [a \in IDs |-> [b \in IDs |-> XorUpTo(a, b, KeyBitSize - 1)]]

Distance(a, b) == Distances[a][b]

\* sort.Sort(routeSet): by XOR distance to the target, ascending
RECURSIVE SortByDistance(_, _)
SortByDistance(S, tgt) ==
    IF S = {} THEN <<>>
    ELSE LET m == CHOOSE x \in S : \A y \in S : Distance(x, tgt) <= Distance(y, tgt)
         IN  <<m>> \o SortByDistance(S \ {m}, tgt)

\* the contacts of a routing table
TableContacts(table) == UNION {Range(table[i]) : i \in DOMAIN table}

\* ht.GetClosestContacts(num, target, ignored)
GetClosestContacts(table, num, tgt, ignored) ==
    FirstN(SortByDistance(TableContacts(table) \ ignored, tgt), num)

\* routeSet.Remove / routeSet.RemoveMany
RouteSetRemoveMany(rs, S) == SelectSeq(rs, LAMBDA x : x \notin S)

\* routeSet.AppendMany: a node the set holds is not appended again
RECURSIVE RouteSetAppendMany(_, _)
RouteSetAppendMany(rs, nodes) ==
    IF nodes = <<>> THEN rs
    ELSE RouteSetAppendMany(IF InSeq(rs, Head(nodes)) THEN rs ELSE Append(rs, Head(nodes)),
                            Tail(nodes))

\* addNode run to its end: `answered` tells whether the head of a full
\* bucket answers the ping (the interleavings of addNode are in Part 2)
AddNode(table, id, answered) ==
    LET idx == IndexOf(id)
        bucket == table[idx]
    IN  IF InSeq(bucket, id) THEN [table EXCEPT ![idx] = MarkNodeAsSeen(bucket, id)]
        ELSE IF Len(bucket) # MaxContactsInBucket THEN [table EXCEPT ![idx] = Append(bucket, id)]
        ELSE IF answered THEN table
        ELSE [table EXCEPT ![idx] = EvictHeadAppend(bucket, id)]

\* the contacts a peer may hold: none, or every other peer
Knowledge(p) == {{}, Peers \ {p}}

\* the responses of a peer to a query for tgt: an error; from
\* processFindNode up to MaxContactsInBucket of its contacts, closest first;
\* from processFindValue the value and no contacts if its store holds the
\* key, its closest contacts otherwise
ResponsesOf(p, t, tgt) ==
    {[sender |-> p, error |-> TRUE, closest |-> <<>>, value |-> NoValue]}
    \cup {[sender |-> p, error |-> FALSE,
           closest |-> FirstN(SortByDistance(S, tgt), MaxContactsInBucket),
           value |-> NoValue] : S \in Knowledge(p)}
    \cup (IF t = "IterateFindValue"
          THEN {[sender |-> p, error |-> FALSE, closest |-> <<>>, value |-> Data]}
          ELSE {})

\* resultsIterate(t, results, routeSet, target): the value, the closest list
\* and the route set it leaves
RECURSIVE resultsIterate(_, _, _, _)
resultsIterate(t, rs, res, tgt) ==
    IF res = <<>> THEN [value |-> NoValue, closest |-> <<>>, routeSet |-> rs]
    ELSE LET result == Head(res)
         IN  IF result.error
             THEN resultsIterate(t, RouteSetRemoveMany(rs, {result.sender}), Tail(res), tgt)
             ELSE IF t = "IterateFindValue"
             THEN IF result.value # NoValue
                  THEN [value |-> result.value, closest |-> <<>>,
                        routeSet |-> RouteSetAppendMany(rs, result.closest)]
                  ELSE resultsIterate(t, RouteSetAppendMany(rs, result.closest), Tail(res), tgt)
             ELSE IF Len(result.closest) > 0 /\ result.closest[1] = tgt
                  THEN [value |-> NoValue, closest |-> result.closest, routeSet |-> rs]
                  ELSE resultsIterate(t, RouteSetAppendMany(rs, result.closest), Tail(res), tgt)

\* a checkFuturesCountAndGo without `if !*queryRest && routeSet.Len() == 0`
checkFuturesCountAndGoOn(t, qr, rs, count, res, tgt) ==
    LET ri == IF count > 0 THEN resultsIterate(t, rs, res, tgt)
              ELSE [value |-> NoValue, closest |-> <<>>, routeSet |-> rs]
    IN  IF ri.closest # <<>>
        THEN [value |-> NoValue, closest |-> ri.closest, err |-> "nil", routeSet |-> ri.routeSet]
        ELSE [value |-> NoValue, closest |-> <<>>, err |-> "do nothing",
              routeSet |-> ri.routeSet]

\* checkFuturesCountAndGo from `_, close, err = resultsIterate(...)` on:
\* what it returns (the value of resultsIterate is dropped) and the route set
checkFuturesCountAndGo(t, qr, rs, count, res, tgt) ==
    LET ri == IF count > 0 THEN resultsIterate(t, rs, res, tgt)
              ELSE [value |-> NoValue, closest |-> <<>>, routeSet |-> rs]
    IN  IF ri.closest # <<>>
        THEN [value |-> NoValue, closest |-> ri.closest, err |-> "nil", routeSet |-> ri.routeSet]
        ELSE IF ~qr /\ Len(ri.routeSet) = 0
        THEN [value |-> NoValue, closest |-> <<>>, err |-> "nil", routeSet |-> ri.routeSet]
        ELSE [value |-> NoValue, closest |-> <<>>, err |-> "do nothing",
              routeSet |-> ri.routeSet]

\* the senders of the results of a round whose packet carries an error
ErrorSenders(count, res) ==
    IF count > 0 THEN {res[i].sender : i \in {j \in 1..Len(res) : res[j].error}} ELSE {}

\* Get: `if value != nil { exists = true }`
GetExists(value) == value # NoValue

\* iterateIsDone(t, queryRest, routeSet, data, ht, closestNode) on a route
\* set that is not empty: its error, the closest list it returns, the
\* closestNode and queryRest of the next round, the receivers of STORE
iterateIsDone(t, qr, rs, cn) ==
    IF rs[1] = cn \/ qr
    THEN IF t = "IterateBootstrap"
         THEN IF ~qr
              THEN [err |-> "do nothing", closest |-> <<>>, closestNode |-> cn,
                    queryRest |-> TRUE, receivers |-> <<>>]
              ELSE [err |-> "nil", closest |-> rs, closestNode |-> cn,
                    queryRest |-> qr, receivers |-> <<>>]
         ELSE IF t \in {"IterateFindNode", "IterateFindValue"}
         THEN [err |-> "nil", closest |-> rs, closestNode |-> cn,
               queryRest |-> qr, receivers |-> <<>>]
         ELSE [err |-> "nil", closest |-> <<>>, closestNode |-> cn,
               queryRest |-> qr, receivers |-> FirstN(rs, MaxContactsInBucket)]
    ELSE [err |-> "do nothing", closest |-> <<>>, closestNode |-> rs[1],
          queryRest |-> qr, receivers |-> <<>>]

InitIter ==
    /\ iterPc = "idle"
    /\ iterType = "none"
    /\ iterTarget = OriginID
    /\ routeSet = <<>>
    /\ contacted = {}
    /\ queryRest = FALSE
    /\ closestNode = OriginID
    /\ removeFromRouteSet = {}
    /\ futuresCount = 0
    /\ pending = {}
    /\ stale = {}
    /\ results = <<>>
    /\ storeSent = {}
    /\ retValue = NoValue
    /\ retClosest = <<>>
    /\ valueSeen = FALSE
    /\ errored = {}

\* Bootstrap: a bootstrap node answers the ping, addNode(result.Sender).
BootstrapPingResponse(id) ==
    /\ iterPc = "idle"
    /\ id \notin TableContacts(RoutingTable)
    /\ \E answered \in BOOLEAN : RoutingTable' = AddNode(RoutingTable, id, answered)
    /\ UNCHANGED iterVars
    /\ UNCHANGED notIter

\* iterate(ctx, t, target, data) up to the `for`, called by Store, by Get
\* for a key the local store does not hold, by FindNode and by iterateHt.
Iterate(t, tgt) ==
    LET rs == GetClosestContacts(RoutingTable, ParallelCalls, tgt, {})
    IN  /\ iterPc = "idle"
        /\ iterType' = t
        /\ iterTarget' = tgt
        /\ routeSet' = rs
        /\ iterPc' = IF Len(rs) = 0 THEN "done" ELSE "send"
        /\ closestNode' = IF Len(rs) = 0 THEN closestNode ELSE rs[1]
        /\ UNCHANGED <<contacted, queryRest, removeFromRouteSet, futuresCount, pending,
                       stale, results, storeSent, retValue, retClosest, valueSeen, errored>>
        /\ UNCHANGED <<RoutingTable, notIter>>

\* the members of the route set sendPacketToAlphaNodes sends to
AlphaNodes ==
    {routeSet[i] : i \in {j \in 1..Len(routeSet) : queryRest \/ j <= ParallelCalls}}
        \ contacted

\* One pass of the `for` up to the select of selectResultChan:
\* sendPacketToAlphaNodes (SendRequest fails for the nodes of `failed`),
\* routeSet.RemoveMany, setUpResultChan.
SendPacketToAlphaNodes ==
    /\ iterPc = "send"
    /\ contacted' = contacted \cup AlphaNodes
    /\ \E failed \in SUBSET AlphaNodes :
          /\ removeFromRouteSet' = removeFromRouteSet \cup failed
          /\ routeSet' = RouteSetRemoveMany(routeSet, removeFromRouteSet \cup failed)
          /\ pending' = AlphaNodes \ failed
          /\ futuresCount' = Cardinality(AlphaNodes \ failed)
          /\ iterPc' = IF AlphaNodes \ failed # {} THEN "collect" ELSE "selected"
    /\ results' = <<>>
    /\ UNCHANGED <<iterType, iterTarget, queryRest, closestNode, stale, storeSent, retValue,
                   retClosest, valueSeen, errored>>
    /\ UNCHANGED <<RoutingTable, notIter>>

\* A goroutine of setUpResultChan: `case result := <-future.Result()`,
\* addNode, `resultChan <- result` meeting `case result := <-resultChan` of
\* selectResultChan, which closes the channel once all results are in.
FutureResult(p) ==
    /\ iterPc = "collect"
    /\ p \in pending
    /\ \E answered \in BOOLEAN : RoutingTable' = AddNode(RoutingTable, p, answered)
    /\ \E rsp \in ResponsesOf(p, iterType, iterTarget) : results' = Append(results, rsp)
    /\ pending' = pending \ {p}
    /\ iterPc' = IF Len(results) + 1 = futuresCount THEN "selected" ELSE "collect"
    /\ UNCHANGED <<iterType, iterTarget, routeSet, contacted, queryRest, closestNode,
                   removeFromRouteSet, futuresCount, stale, storeSent, retValue,
                   retClosest, valueSeen, errored>>
    /\ UNCHANGED notIter

\* A goroutine of setUpResultChan: `case <-time.After(PacketTimeout)`.
FutureTimeout(p) ==
    /\ iterPc = "collect"
    /\ p \in pending
    /\ pending' = pending \ {p}
    /\ UNCHANGED <<iterPc, iterType, iterTarget, routeSet, contacted, queryRest, closestNode,
                   removeFromRouteSet, futuresCount, stale, results, storeSent, retValue,
                   retClosest, valueSeen, errored>>
    /\ UNCHANGED <<RoutingTable, notIter>>

\* selectResultChan: `case <-time.After(PacketTimeout)`, close(resultChan);
\* the goroutines still running hold the closed channel.
CollectorTimeout ==
    /\ iterPc = "collect"
    /\ iterPc' = "selected"
    /\ stale' = stale \cup pending
    /\ pending' = {}
    /\ UNCHANGED <<iterType, iterTarget, routeSet, contacted, queryRest, closestNode,
                   removeFromRouteSet, futuresCount, results, storeSent, retValue,
                   retClosest, valueSeen, errored>>
    /\ UNCHANGED <<RoutingTable, notIter>>

\* A goroutine whose channel is closed gets its response before its own
\* timeout: addNode, then `resultChan <- result` on the closed channel.
StaleGoroutineSends(p) ==
    /\ iterPc \in {"send", "collect", "selected", "done"}
    /\ p \in stale
    /\ \E answered \in BOOLEAN : RoutingTable' = AddNode(RoutingTable, p, answered)
    /\ stale' = stale \ {p}
    /\ iterPc' = "panic"
    /\ UNCHANGED <<iterType, iterTarget, routeSet, contacted, queryRest, closestNode,
                   removeFromRouteSet, futuresCount, pending, results, storeSent, retValue,
                   retClosest, valueSeen, errored>>
    /\ UNCHANGED notIter

\* A goroutine whose channel is closed times out, or its future is closed.
StaleGoroutineEnds(p) ==
    /\ iterPc \in {"send", "collect", "selected", "done"}
    /\ p \in stale
    /\ stale' = stale \ {p}
    /\ UNCHANGED <<iterPc, iterType, iterTarget, routeSet, contacted, queryRest, closestNode,
                   removeFromRouteSet, futuresCount, pending, results, storeSent, retValue,
                   retClosest, valueSeen, errored>>
    /\ UNCHANGED <<RoutingTable, notIter>>

\* a result of the round carries a value that resultsIterate reaches
ValueInResults ==
    /\ iterType = "IterateFindValue"
    /\ futuresCount > 0
    /\ \E i \in 1..Len(results) : ~results[i].error /\ results[i].value # NoValue

\* The rest of the pass: checkFuturesCountAndGo after the select, the
\* return of iterate or sort.Sort(routeSet) and iterateIsDone; SendRequest
\* of the f-th STORE fails (f = 0: none fails) and future.Cancel() is
\* called on no future.
IterateRound ==
    LET cf == checkFuturesCountAndGo(iterType, queryRest, routeSet, futuresCount,
                                     results, iterTarget)
        sorted == SortByDistance(Range(cf.routeSet), iterTarget)
        done == iterateIsDone(iterType, queryRest, sorted, closestNode)
    IN  /\ iterPc = "selected"
        /\ results' = <<>>
        /\ valueSeen' = (valueSeen \/ ValueInResults)
        /\ IF cf.err = "nil"
           THEN /\ iterPc' = "done"
                /\ retValue' = cf.value
                /\ retClosest' = cf.closest
                /\ routeSet' = cf.routeSet
                /\ UNCHANGED <<queryRest, closestNode, storeSent>>
           ELSE IF Len(sorted) = 0
           THEN /\ iterPc' = "panic"
                /\ routeSet' = sorted
                /\ UNCHANGED <<queryRest, closestNode, storeSent, retValue, retClosest>>
           ELSE /\ routeSet' = sorted
                /\ queryRest' = done.queryRest
                /\ closestNode' = done.closestNode
                /\ retClosest' = done.closest
                /\ UNCHANGED retValue
                /\ \E f \in 0..Len(done.receivers) :
                      /\ storeSent' = storeSent \cup
                            Range(FirstN(done.receivers,
                                         IF f = 0 THEN Len(done.receivers) ELSE f))
                      /\ iterPc' = IF f # 0 THEN "panic"
                                   ELSE IF done.err = "nil" THEN "done" ELSE "send"
        /\ errored' = errored \cup ErrorSenders(futuresCount, results)
        /\ UNCHANGED <<iterType, iterTarget, contacted, removeFromRouteSet, futuresCount,
                       pending, stale>>
        /\ UNCHANGED <<RoutingTable, notIter>>

NextIter ==
    \/ \E id \in Peers : BootstrapPingResponse(id)
    \/ \E t \in IterateTypes :
          \E tgt \in IF t = "IterateBootstrap" THEN {OriginID} ELSE Targets : Iterate(t, tgt)
    \/ SendPacketToAlphaNodes
    \/ \E p \in Peers : FutureResult(p)
    \/ \E p \in Peers : FutureTimeout(p)
    \/ CollectorTimeout
    \/ \E p \in Peers : StaleGoroutineSends(p)
    \/ \E p \in Peers : StaleGoroutineEnds(p)
    \/ IterateRound

(***************************************************************************)
(* Part 5: the bootstrapper (package bootstrap): SetLastPulse and the      *)
(* bootstrapLock gate, and BootstrapDiscovery with the genesis exchange.   *)
(***************************************************************************)
\* the largest pulse number of the model
MaxPulse == 2
Pulses == 0..MaxPulse
NoPulse == 0 - 1

\* the goroutines that call SetLastPulse: the pulse handler and the handler
\* of a peer's genesis request (processGenesis)
Setters == {"pulse", "processGenesis"}
NoSetter == "nobody"

\* the discovery nodes of the certificate, the origin removed
DiscoveryNodes == {"d1", "d2"}
\* the NodeIDs and ShortIDs a NodeStruct carries; the origin has both 0
NodeIDs == {1, 2}
ShortIDs == {0, 1}
OriginNode == [id |-> 0, sid |-> 0]

\* `if !bc.pulsePersisted`
NotPersistedAlways(persisted) == TRUE

NotPersisted(persisted) == ~persisted

\* one round of the loop of calculateLastIgnoredPulse
MaxPulseKeepsOwn(maxPulse, pulse) == maxPulse

MaxPulseStep(maxPulse, pulse) == IF pulse > maxPulse THEN pulse ELSE maxPulse

RECURSIVE MaxOver(_, _)
MaxOver(maxPulse, pulses) ==
    IF pulses = <<>> THEN maxPulse
    ELSE MaxOver(MaxPulseStep(maxPulse, Head(pulses)), Tail(pulses))

\* calculateLastIgnoredPulse, own = bc.GetLastPulse()
calculateLastIgnoredPulse(own, lastPulses) == MaxOver(own, lastPulses)

\* the lastPulses of waitGenesisResults
LastPulsesOf(res) == [i \in 1..Len(res) |-> res[i].lastPulse]

\* checkActiveNode: nil, or the collision with a node of the NodeKeeper
checkActiveNode(keeper, node) ==
    IF node.id \in DOMAIN keeper THEN "Node ID collision"
    ELSE IF \E i \in DOMAIN keeper : keeper[i] = node.sid THEN "Short ID collision"
    ELSE "nil"

\* NodeKeeper.AddActiveNodes: the nodes enter the map of active nodes in order
RECURSIVE AddActiveNodes(_, _)
AddActiveNodes(keeper, nodes) ==
    IF nodes = <<>> THEN keeper
    ELSE AddActiveNodes(
             [i \in DOMAIN keeper \cup {Head(nodes).id} |->
                 IF i = Head(nodes).id THEN Head(nodes).sid ELSE keeper[i]],
             Tail(nodes))

InitBoot ==
    /\ lastPulse = 0
    /\ pulsePersisted = FALSE
    /\ bootstrapLock = "open"
    /\ lastPulseLock = NoSetter
    /\ setPc = [c \in Setters |-> "idle"]
    /\ setArg = [c \in Setters |-> 0]
    /\ firstCaller = NoSetter
    /\ firstNumber = NoPulse
    /\ closedBy = NoSetter
    /\ bdPc = "idle"
    /\ hosts = {}
    /\ answeredHosts = {}
    /\ sentLastPulse = <<>>
    /\ genesisResults = <<>>
    /\ ownLastPulse = NoPulse
    /\ maxLastPulse = 0
    /\ activeNodes = [i \in {OriginNode.id} |-> OriginNode.sid]
    /\ bdResult = "none"

\* SetLastPulse: bc.lastPulseLock.Lock()
SetLastPulseLock(c, number) ==
    /\ setPc[c] = "idle"
    /\ lastPulseLock = NoSetter
    /\ bootstrapLock # "panic"
    /\ lastPulseLock' = c
    /\ setPc' = [setPc EXCEPT ![c] = "locked"]
    /\ setArg' = [setArg EXCEPT ![c] = number]
    /\ firstCaller' = IF firstCaller = NoSetter THEN c ELSE firstCaller
    /\ firstNumber' = IF firstCaller = NoSetter THEN number ELSE firstNumber
    /\ UNCHANGED <<lastPulse, pulsePersisted, bootstrapLock, closedBy, bdPc, hosts,
                   answeredHosts, sentLastPulse, genesisResults, ownLastPulse,
                   maxLastPulse, activeNodes, bdResult>>
    /\ UNCHANGED notBoot

\* SetLastPulse: the pulse is persisted already, the deferred Unlock
SetLastPulseSkip(c) ==
    /\ setPc[c] = "locked"
    /\ ~NotPersisted(pulsePersisted)
    /\ lastPulseLock' = NoSetter
    /\ setPc' = [setPc EXCEPT ![c] = "idle"]
    /\ setArg' = [setArg EXCEPT ![c] = 0]
    /\ UNCHANGED <<lastPulse, pulsePersisted, bootstrapLock, firstCaller, firstNumber,
                   closedBy, bdPc, hosts, answeredHosts, sentLastPulse, genesisResults,
                   ownLastPulse, maxLastPulse, activeNodes, bdResult>>
    /\ UNCHANGED notBoot

\* SetLastPulse: bc.lastPulse = number
SetLastPulseStore(c) ==
    /\ setPc[c] = "locked"
    /\ NotPersisted(pulsePersisted)
    /\ lastPulse' = setArg[c]
    /\ setPc' = [setPc EXCEPT ![c] = "close"]
    /\ UNCHANGED <<pulsePersisted, bootstrapLock, lastPulseLock, setArg, firstCaller,
                   firstNumber, closedBy, bdPc, hosts, answeredHosts, sentLastPulse,
                   genesisResults, ownLastPulse, maxLastPulse, activeNodes, bdResult>>
    /\ UNCHANGED notBoot

\* SetLastPulse: close(bc.bootstrapLock); the close of a closed channel panics
SetLastPulseClose(c) ==
    /\ setPc[c] = "close"
    /\ bootstrapLock' = IF bootstrapLock = "open" THEN "closed" ELSE "panic"
    /\ closedBy' = IF bootstrapLock = "open" THEN c ELSE closedBy
    /\ setPc' = [setPc EXCEPT ![c] = "persist"]
    /\ UNCHANGED <<lastPulse, pulsePersisted, lastPulseLock, setArg, firstCaller,
                   firstNumber, bdPc, hosts, answeredHosts, sentLastPulse, genesisResults,
                   ownLastPulse, maxLastPulse, activeNodes, bdResult>>
    /\ UNCHANGED notBoot

\* SetLastPulse: bc.pulsePersisted = true, the deferred Unlock
SetLastPulsePersist(c) ==
    /\ setPc[c] = "persist"
    /\ bootstrapLock # "panic"
    /\ pulsePersisted' = TRUE
    /\ lastPulseLock' = NoSetter
    /\ setPc' = [setPc EXCEPT ![c] = "idle"]
    /\ setArg' = [setArg EXCEPT ![c] = 0]
    /\ UNCHANGED <<lastPulse, bootstrapLock, firstCaller, firstNumber, closedBy, bdPc,
                   hosts, answeredHosts, sentLastPulse, genesisResults, ownLastPulse,
                   maxLastPulse, activeNodes, bdResult>>
    /\ UNCHANGED notBoot

\* BootstrapDiscovery up to `<-bc.bootstrapLock`: without discovery nodes it
\* returns nil at once; otherwise the loop ends when every discovery node has
\* answeredHosts the Bootstrap request
BootstrapDiscoveryStart(discovery) ==
    /\ bdPc = "idle"
    /\ hosts' = discovery
    /\ IF discovery = {}
       THEN bdPc' = "done" /\ bdResult' = "nil"
       ELSE bdPc' = "gate" /\ bdResult' = bdResult
    /\ UNCHANGED <<lastPulse, pulsePersisted, bootstrapLock, lastPulseLock, setPc,
                   setArg, firstCaller, firstNumber, closedBy, answeredHosts,
                   sentLastPulse, genesisResults, ownLastPulse, maxLastPulse,
                   activeNodes>>
    /\ UNCHANGED notBoot

\* BootstrapDiscovery: `<-bc.bootstrapLock` returns once the channel is closed
BootstrapDiscoveryGate ==
    /\ bdPc = "gate"
    /\ bootstrapLock # "open"
    /\ bdPc' = "genesis"
    /\ ownLastPulse' = lastPulse
    /\ UNCHANGED <<lastPulse, pulsePersisted, bootstrapLock, lastPulseLock, setPc,
                   setArg, firstCaller, firstNumber, closedBy, hosts, answeredHosts,
                   sentLastPulse, genesisResults, maxLastPulse, activeNodes, bdResult>>
    /\ UNCHANGED notBoot

\* getGenesisRequestsChannel / sendGenesisRequest for one host: the request
\* carries bc.GetLastPulse() (under RLock); the response carries the
\* NodeStruct and the LastPulse of the host, and waitGenesisResults takes it
GenesisExchange(h, id, sid, pulse) ==
    /\ bdPc = "genesis"
    /\ h \in hosts \ answeredHosts
    /\ lastPulseLock = NoSetter
    /\ answeredHosts' = answeredHosts \cup {h}
    /\ sentLastPulse' = Append(sentLastPulse, lastPulse)
    /\ genesisResults' = Append(genesisResults,
                                [id |-> id, sid |-> sid, lastPulse |-> pulse])
    /\ UNCHANGED <<lastPulse, pulsePersisted, bootstrapLock, lastPulseLock, setPc,
                   setArg, firstCaller, firstNumber, closedBy, bdPc, hosts,
                   ownLastPulse, maxLastPulse, activeNodes, bdResult>>
    /\ UNCHANGED notBoot

\* waitGenesisResults: `case <-time.After(bc.options.BootstrapTimeout)`
GenesisTimeout ==
    /\ bdPc = "genesis"
    /\ answeredHosts # hosts
    /\ bdPc' = "done"
    /\ bdResult' = "Genesis bootstrap timeout"
    /\ UNCHANGED <<lastPulse, pulsePersisted, bootstrapLock, lastPulseLock, setPc,
                   setArg, firstCaller, firstNumber, closedBy, hosts, answeredHosts,
                   sentLastPulse, genesisResults, ownLastPulse, maxLastPulse,
                   activeNodes>>
    /\ UNCHANGED notBoot

\* BootstrapDiscovery: waitGenesisResults has len(hosts) results;
\* calculateLastIgnoredPulse reads bc.GetLastPulse() under RLock
CalculateLastIgnoredPulse ==
    /\ bdPc = "genesis"
    /\ answeredHosts = hosts
    /\ lastPulseLock = NoSetter
    /\ maxLastPulse' = calculateLastIgnoredPulse(lastPulse, LastPulsesOf(genesisResults))
    /\ bdPc' = "force"
    /\ UNCHANGED <<lastPulse, pulsePersisted, bootstrapLock, lastPulseLock, setPc,
                   setArg, firstCaller, firstNumber, closedBy, hosts, answeredHosts,
                   sentLastPulse, genesisResults, ownLastPulse, activeNodes, bdResult>>
    /\ UNCHANGED notBoot

\* forceSetLastPulse: Lock, bc.lastPulse = number, Unlock
ForceSetLastPulse ==
    /\ bdPc = "force"
    /\ lastPulseLock = NoSetter
    /\ lastPulse' = maxLastPulse
    /\ bdPc' = "check"
    /\ UNCHANGED <<pulsePersisted, bootstrapLock, lastPulseLock, setPc, setArg,
                   firstCaller, firstNumber, closedBy, hosts, answeredHosts, sentLastPulse,
                   genesisResults, ownLastPulse, maxLastPulse, activeNodes, bdResult>>
    /\ UNCHANGED notBoot

\* the first error checkActiveNode returns over activeNodes, or "nil"
RECURSIVE FirstCollision(_, _)
FirstCollision(keeper, nodes) ==
    IF nodes = <<>> THEN "nil"
    ELSE IF checkActiveNode(keeper, Head(nodes)) # "nil"
         THEN checkActiveNode(keeper, Head(nodes))
         ELSE FirstCollision(keeper, Tail(nodes))

\* BootstrapDiscovery: the loop of checkActiveNode over activeNodes, then
\* NodeKeeper.AddActiveNodes(activeNodes) and `return nil`
CheckAndAddActiveNodes ==
    /\ bdPc = "check"
    /\ bdPc' = "done"
    /\ bdResult' = FirstCollision(activeNodes, genesisResults)
    /\ activeNodes' = IF FirstCollision(activeNodes, genesisResults) = "nil"
                      THEN AddActiveNodes(activeNodes, genesisResults)
                      ELSE activeNodes
    /\ UNCHANGED <<lastPulse, pulsePersisted, bootstrapLock, lastPulseLock, setPc,
                   setArg, firstCaller, firstNumber, closedBy, hosts, answeredHosts,
                   sentLastPulse, genesisResults, ownLastPulse, maxLastPulse>>
    /\ UNCHANGED notBoot

NextBoot ==
    \/ \E c \in Setters, number \in Pulses : SetLastPulseLock(c, number)
    \/ \E c \in Setters : SetLastPulseSkip(c)
    \/ \E c \in Setters : SetLastPulseStore(c)
    \/ \E c \in Setters : SetLastPulseClose(c)
    \/ \E c \in Setters : SetLastPulsePersist(c)
    \/ \E discovery \in SUBSET DiscoveryNodes : BootstrapDiscoveryStart(discovery)
    \/ BootstrapDiscoveryGate
    \/ \E h \in DiscoveryNodes, id \in NodeIDs, sid \in ShortIDs, pulse \in Pulses :
          GenesisExchange(h, id, sid, pulse)
    \/ GenesisTimeout
    \/ CalculateLastIgnoredPulse
    \/ ForceSetLastPulse
    \/ CheckAndAddActiveNodes

(***************************************************************************)
(* Part 6: circleXOR (package jetcoordinator).                             *)
(***************************************************************************)
\* the longest slice passed to circleXOR
MaxXorLen == 2
\* the bytes of the model, two bits wide
Bytes == 0..3

\* the sum of two bytes, not their XOR
ByteAdd(a, b) == (a + b) % 4

\* value[i] ^ src[i%srcLen]
ByteXor(a, b) == XorUpTo(a, b, 1)

\* the byte slices of at most n bytes
Slices(n) == UNION {[1..k -> Bytes] : k \in 0..n}

\* the loop of circleXOR from index i on (i counts from 1): the three
\* slices when it ends
RECURSIVE circleXORLoop(_, _, _, _)
circleXORLoop(value, src, result, i) ==
    IF i > Len(result)
    THEN [value |-> value, src |-> src, result |-> result]
    ELSE circleXORLoop(value, src,
             [result EXCEPT ![i] = ByteXor(value[i], src[((i - 1) % Len(src)) + 1])],
             i + 1)

\* circleXOR(value, src): result := make([]byte, len(value)), then the loop
circleXOR(value, src) == circleXORLoop(value, src, [i \in 1..Len(value) |-> 0], 1)

\* `i%srcLen` with srcLen = 0 is a run-time panic; without a round of the
\* loop it is not evaluated
circleXORPanics(value, src) == Len(src) = 0 /\ Len(value) > 0

InitXor ==
    /\ xorPc = "idle"
    /\ xorValue = <<>>
    /\ xorSrc = <<>>
    /\ xorArgs = <<<<>>, <<>>>>
    /\ xorResult = <<>>
    /\ xorAgain = <<>>

\* a call circleXOR(value, src) and a call circleXOR(result, src)
CircleXOR ==
    /\ xorPc = "idle"
    /\ \E value \in Slices(MaxXorLen), src \in Slices(MaxXorLen) :
          /\ ~circleXORPanics(value, src)
          /\ xorPc' = "returned"
          /\ xorArgs' = <<value, src>>
          /\ xorValue' = circleXOR(value, src).value
          /\ xorSrc' = circleXOR(value, src).src
          /\ xorResult' = circleXOR(value, src).result
          /\ xorAgain' = circleXOR(circleXOR(value, src).result, src).result
    /\ UNCHANGED notXor

\* a call circleXOR(value, src) with an empty src and a value that is not
CircleXORPanic ==
    /\ xorPc = "idle"
    /\ \E value \in Slices(MaxXorLen), src \in Slices(MaxXorLen) :
          /\ circleXORPanics(value, src)
          /\ xorPc' = "panic"
          /\ xorArgs' = <<value, src>>
          /\ xorValue' = value
          /\ xorSrc' = src
          /\ xorResult' = <<>>
          /\ xorAgain' = <<>>
    /\ UNCHANGED notXor

NextXor == CircleXOR \/ CircleXORPanic

(***************************************************************************)
(* Part 7: JetCoordinator.QueryRole (package jetcoordinator).  The node    *)
(* storage, the pulse storage and the jet tree are inputs of a call.       *)
(***************************************************************************)
\* the most active nodes of one static role
MaxNodes == 4
NodeRefs == 1..MaxNodes

VirtualValidatorCount == 3
MaterialValidatorCount == 3
VirtualExecutorCount == 1
MaterialExecutorCount == 1

DynamicRoles == {"VirtualExecutor", "VirtualValidator", "LightExecutor",
                 "LightValidator", "HeavyExecutor"}

\* the entropies of a pulse
Entropies == {<<0, 0>>, <<1, 2>>, <<3, 1>>}

\* the record IDs: the pulse part (core.PulseNumberJet for a jet ID) and
\* the hash part
ObjIDs == [pulse : {"jet", "object"}, hash : {<<1>>, <<2, 3>>}]

\* what GetActiveNodesByRole can return: the IDs of different nodes in any order
CandidateLists ==
    {s \in UNION {[1..k -> NodeRefs] : k \in 0..MaxNodes} :
        \A i, j \in 1..Len(s) : i # j => s[i] # s[j]}

Failed == [err |-> TRUE, refs |-> <<>>]
Returned(refs) == [err |-> FALSE, refs |-> refs]

\* sort.SliceStable by ID, one element: v goes behind the IDs that are not larger
RECURSIVE InsertByID(_, _)
InsertByID(sorted, v) ==
    IF sorted = <<>> THEN <<v>>
    ELSE IF v < Head(sorted) THEN <<v>> \o sorted
    ELSE <<Head(sorted)>> \o InsertByID(Tail(sorted), v)

\* the values in the order GetActiveNodesByRole returned them
KeepOrder(values) == values

\* getRefs: sort.SliceStable(values, ...) by ID
RECURSIVE SortByID(_)
SortByID(values) ==
    IF values = <<>> THEN <<>>
    ELSE InsertByID(SortByID(SubSeq(values, 1, Len(values) - 1)), values[Len(values)])

RECURSIVE SumOf(_)
SumOf(e) == IF e = <<>> THEN 0 ELSE Head(e) + SumOf(Tail(e))

\* the index the entropy yields for draw number i among n values
EntropyIndex(e, i, n) == (((SumOf(e) + i) * (i + 1)) % n) + 1

\* draws number i, i + 1, .. count - 1, each from the values not yet drawn
RECURSIVE Draw(_, _, _, _)
Draw(e, rest, count, i) ==
    IF i = count THEN <<>>
    ELSE <<rest[EntropyIndex(e, i, Len(rest))]>>
         \o Draw(e, RemoveAt(rest, EntropyIndex(e, i, Len(rest))), count, i + 1)

\* entropy.SelectByEntropy(scheme, e, values, count)
SelectByEntropy(e, values, count) ==
    IF count > Len(values) THEN Failed ELSE Returned(Draw(e, values, count, 0))

\* getRefs(scheme, e, values, count)
getRefs(e, values, count) == SelectByEntropy(e, SortByID(values), count)

\* tree.Find(objID): the jet of an object; jet.Jet(jetID): its prefix
FindJet(objID) == [pulse |-> "jet", hash |-> objID.hash]
JetPrefix(jetID) == jetID.hash

virtualsForObject(candidates, ent, objID, count) ==
    IF Len(candidates) = 0 THEN Failed
    ELSE getRefs(circleXOR(ent, objID.hash).result, candidates, count)

lightMaterialsForJet(candidates, ent, jetID, count) ==
    IF Len(candidates) = 0 THEN Failed
    ELSE getRefs(circleXOR(ent, JetPrefix(jetID)).result, candidates, count)

\* `return &nodes[0], nil` and `return []core.RecordRef{*node}, nil`
FirstOf(res) == IF res.err THEN Failed ELSE Returned(<<res.refs[1]>>)

\* the first count nodes, the executors among them
SkipNone(res, count) ==
    IF res.err THEN Failed ELSE Returned(SubSeq(res.refs, 1, Len(res.refs) - count))

\* `return nodes[VirtualExecutorCount:], nil`
SkipExecutors(res, count) ==
    IF res.err THEN Failed ELSE Returned(SubSeq(res.refs, count + 1, Len(res.refs)))

VirtualExecutorForObject(candidates, ent, objID) ==
    FirstOf(virtualsForObject(candidates, ent, objID, VirtualExecutorCount))

VirtualValidatorsForObject(candidates, ent, objID) ==
    SkipExecutors(virtualsForObject(candidates, ent, objID,
                                    VirtualValidatorCount + VirtualExecutorCount),
                  VirtualExecutorCount)

LightExecutorForJet(candidates, ent, jetID) ==
    FirstOf(lightMaterialsForJet(candidates, ent, jetID, MaterialExecutorCount))

LightValidatorsForJet(candidates, ent, jetID) ==
    SkipExecutors(lightMaterialsForJet(candidates, ent, jetID,
                                       MaterialValidatorCount + MaterialExecutorCount),
                  MaterialExecutorCount)

LightExecutorForObject(candidates, ent, objID) ==
    LightExecutorForJet(candidates, ent, FindJet(objID))

LightValidatorsForObject(candidates, ent, objID) ==
    LightValidatorsForJet(candidates, ent, FindJet(objID))

Heavy(candidates, ent) ==
    IF Len(candidates) = 0 THEN Failed ELSE FirstOf(getRefs(ent, candidates, 1))

\* QueryRole(ctx, role, objID, pulse); candidates is what GetActiveNodesByRole
\* returns for the static role of `role`, ent the entropy of the pulse
QueryRole(role, objID, candidates, ent) ==
    CASE role = "VirtualExecutor" -> VirtualExecutorForObject(candidates, ent, objID)
      [] role = "VirtualValidator" -> VirtualValidatorsForObject(candidates, ent, objID)
      [] role = "LightExecutor" ->
            IF objID.pulse = "jet"
            THEN LightExecutorForJet(candidates, ent, objID)
            ELSE LightExecutorForObject(candidates, ent, objID)
      [] role = "LightValidator" -> LightValidatorsForObject(candidates, ent, objID)
      [] role = "HeavyExecutor" -> Heavy(candidates, ent)

InitRole ==
    /\ rolePc = "idle"
    /\ roleRole = "none"
    /\ roleObjID = [pulse |-> "object", hash |-> <<1>>]
    /\ roleEntropy = <<0, 0>>
    /\ roleCandidates = <<>>
    /\ roleResult = Failed

\* a call of QueryRole that returns node refs
QueryRoleReturns ==
    /\ rolePc = "idle"
    /\ \E role \in DynamicRoles, objID \in ObjIDs, candidates \in CandidateLists,
          ent \in Entropies :
          /\ ~QueryRole(role, objID, candidates, ent).err
          /\ roleRole' = role
          /\ roleObjID' = objID
          /\ roleCandidates' = candidates
          /\ roleEntropy' = ent
          /\ roleResult' = QueryRole(role, objID, candidates, ent)
    /\ rolePc' = "returned"
    /\ UNCHANGED notRole

\* a call of QueryRole that returns an error: no active node of the role,
\* or fewer than the count asked for
QueryRoleFails ==
    /\ rolePc = "idle"
    /\ \E role \in DynamicRoles, objID \in ObjIDs, candidates \in CandidateLists,
          ent \in Entropies :
          /\ QueryRole(role, objID, candidates, ent).err
          /\ roleRole' = role
          /\ roleObjID' = objID
          /\ roleCandidates' = candidates
          /\ roleEntropy' = ent
          /\ roleResult' = QueryRole(role, objID, candidates, ent)
    /\ rolePc' = "returned"
    /\ UNCHANGED notRole

NextRole == QueryRoleReturns \/ QueryRoleFails

(***************************************************************************)
(* Part 8: getExpirationTime.  A time.Duration is an integer of            *)
(* DurationBits bits, and time.Second is Second of its units.              *)
(***************************************************************************)
\* the largest dht.options.ExpirationTime
MaxExpiration == 3
\* the largest time.Now()
MaxNow == 1
DurationBits == 8
Second == 10

\* the value of a signed integer of DurationBits bits after an overflow
WrapDuration(x) ==
    ((x + Pow2(DurationBits - 1)) % Pow2(DurationBits)) - Pow2(DurationBits - 1)

\* int64(math.Exp(float64(q))) for the quotients of the model
ExpFloor(q) ==
    CASE q = 0 -> 1
      [] q = 1 -> 2
      [] q = 2 -> 7
      [] q = 3 -> 20
      [] q = 4 -> 54

\* `for i := 0; i < bucket; i++ { total += ht.GetTotalNodesInBucket(i) }`
RECURSIVE TotalBelow(_, _)
TotalBelow(sizes, bucket) ==
    IF bucket = 0 THEN 0 ELSE sizes[bucket - 1] + TotalBelow(sizes, bucket - 1)

\* score := total + len(closer)
ScoreOf(sizes, bucket, closer) == TotalBelow(sizes, bucket) + closer

\* `if score == 0 { score = 1 }`
ScoreOrOne(score) == IF score = 0 THEN 1 ELSE score

\* getExpirationTime from `if score == 0` on
ExpirationTimeOf(score, expiration, now) ==
    IF ScoreOrOne(score) > MaxContactsInBucket
    THEN now + expiration
    ELSE now + WrapDuration(Second *
                 WrapDuration(expiration *
                     ExpFloor(MaxContactsInBucket \div ScoreOrOne(score))))

\* getExpirationTime(ctx, key)
getExpirationTime(key, sizes, closer, expiration, now) ==
    ExpirationTimeOf(ScoreOf(sizes, GetBucketIndexFromDifferingBit(key, OriginID), closer),
                     expiration, now)

InitExp ==
    /\ expPc = "idle"
    /\ expKey = OriginID
    /\ expSizes = [i \in 0..(KeyBitSize - 1) |-> 0]
    /\ expCloser = 0
    /\ expExpiration = 1
    /\ expNow = 0
    /\ expResult = 0

\* a call of getExpirationTime on a routing table with sizes[i] contacts in
\* bucket i, `closer` of them in the bucket of the key closer than the key
GetExpirationTime ==
    /\ expPc = "idle"
    /\ \E key \in IDs, sizes \in [0..(KeyBitSize - 1) -> 0..MaxContactsInBucket],
          expiration \in 1..MaxExpiration, now \in 0..MaxNow :
          \E closer \in 0..sizes[GetBucketIndexFromDifferingBit(key, OriginID)] :
             /\ expKey' = key
             /\ expSizes' = sizes
             /\ expCloser' = closer
             /\ expExpiration' = expiration
             /\ expNow' = now
             /\ expResult' = getExpirationTime(key, sizes, closer, expiration, now)
    /\ expPc' = "returned"
    /\ UNCHANGED notExp

NextExp == GetExpirationTime

(***************************************************************************)
(* Part 9: handlePackets on one packet of the transport, and               *)
(* sendRelayedRequest.                                                     *)
(***************************************************************************)
\* dht.origin.IDs, dht.origin.Address
OriginIDs == {"o1", "o2"}
OriginAddress == "origin"
\* the ID of the default node of the context builder
DefaultOriginID == "o1"
\* the ID of a node that is not this one
ForeignIDs == {"f1"}
\* an ID whose GetHash() is nil
NilID == "nil"
SenderAddresses == {"a1", "a2"}
SenderIDs == {"s1", "s2"}
TargetAddresses == {"t1"}
PacketTypes == {"TypePing", "TypeStore"}
RequestIDs == {1, 2}
PacketData == {"d1", "d2"}
\* FindNode: an error, no such node, or the node found
FindNodeError == "error"
FindNodeMissing == "missing"
NoRequest == [type |-> "none"]

\* the packets of dht.transport.Packets()
Msgs ==
    [sender : [address : SenderAddresses, id : SenderIDs],
     receiver : [id : OriginIDs \cup ForeignIDs \cup {NilID}, address : {OriginAddress}],
     type : PacketTypes, requestID : RequestIDs, data : PacketData]

\* msg.IsForMe(*dht.origin): the receiver is one of the origin's IDs or the
\* default
IsForMe(msg) == msg.receiver.id \in OriginIDs \/ msg.receiver.id = NilID

\* dht.relay.NeedToRelay(address)
NeedToRelay(clients, address) == address \in clients

\* buildContext and htFromCtx: the ID of the origin whose table the context
\* selects, the first for the default
HtOrigin(msg) == IF msg.receiver.id = NilID THEN DefaultOriginID ELSE msg.receiver.id

\* ht.Origin.ID.HashEqual(msg.Receiver.ID.GetHash())
HashEqualOrigin(msg) == msg.receiver.id # NilID /\ HtOrigin(msg) = msg.receiver.id

\* the packet built for sendRelayedRequest
RelayedRequest(msg, target) ==
    [sender |-> [address |-> OriginAddress, id |-> msg.sender.id],
     receiver |-> [id |-> msg.receiver.id, address |-> target],
     type |-> msg.type, requestID |-> msg.requestID, data |-> msg.data]

\* what one turn of the loop of handlePackets does with msg
HandleOutcome(msg, clients, found) ==
    IF ~IsForMe(msg) THEN "dropped"
    ELSE IF HashEqualOrigin(msg) \/ ~NeedToRelay(clients, msg.sender.address)
    THEN "dispatched"
    ELSE IF found = FindNodeError THEN "error"
    ELSE IF found = FindNodeMissing THEN "not found"
    ELSE "relayed"

InitFwd ==
    /\ fwdPc = "idle"
    /\ fwdMsg = NoRequest
    /\ fwdClients = {}
    /\ fwdFound = FindNodeMissing
    /\ fwdOutcome = "none"
    /\ fwdRequest = NoRequest

\* `case msg := <-dht.transport.Packets()` up to the call of
\* dht.transport.SendRequest in sendRelayedRequest
HandlePacketOrRelay ==
    /\ fwdPc = "idle"
    /\ \E msg \in Msgs, clients \in SUBSET SenderAddresses,
          found \in {FindNodeError, FindNodeMissing} \cup TargetAddresses :
          /\ fwdMsg' = msg
          /\ fwdClients' = clients
          /\ fwdFound' = found
          /\ fwdOutcome' = HandleOutcome(msg, clients, found)
          /\ fwdRequest' = IF HandleOutcome(msg, clients, found) = "relayed"
                           THEN RelayedRequest(msg, found) ELSE NoRequest
          /\ fwdPc' = IF HandleOutcome(msg, clients, found) = "relayed"
                      THEN "sending" ELSE "done"
    /\ UNCHANGED notFwd

\* sendRelayedRequest: `case rsp := <-future.Result()` with a response
RelayedResponse ==
    /\ fwdPc = "sending"
    /\ fwdPc' = "done"
    /\ fwdOutcome' = "answered"
    /\ UNCHANGED <<fwdMsg, fwdClients, fwdFound, fwdRequest>>
    /\ UNCHANGED notFwd

\* sendRelayedRequest: the channel of the future was closed, rsp is nil and
\* rsp.Sender is read
RelayedClosed ==
    /\ fwdPc = "sending"
    /\ fwdPc' = "done"
    /\ fwdOutcome' = "panic"
    /\ UNCHANGED <<fwdMsg, fwdClients, fwdFound, fwdRequest>>
    /\ UNCHANGED notFwd

\* sendRelayedRequest: `case <-time.After(dht.options.PacketTimeout)`
RelayedTimeout ==
    /\ fwdPc = "sending"
    /\ fwdPc' = "done"
    /\ fwdOutcome' = "timeout"
    /\ UNCHANGED <<fwdMsg, fwdClients, fwdFound, fwdRequest>>
    /\ UNCHANGED notFwd

NextFwd == HandlePacketOrRelay \/ RelayedResponse \/ RelayedClosed \/ RelayedTimeout

(***************************************************************************)
(* Part 10: message.ExtractTarget and message.ExtractRole.  A message is   *)
(* its type, wrapped in `depth` Parcels; a reference is named after the    *)
(* field it is read from.                                                  *)
(***************************************************************************)
\* the deepest nesting of Parcels
MaxParcelDepth == 2

\* the types of core.Message the two switches name, and one they do not
\* ("Unlisted": any other implementation of core.Message, nil included)
MessageTypes ==
    {"GenesisRequest", "CallConstructor", "CallMethod", "ExecutorResults",
     "GetChildren", "GetCode", "GetDelegate", "GetObject", "JetDrop",
     "RegisterChild", "SetBlob", "SetRecord", "UpdateObject",
     "ValidateCaseBind", "ValidateRecord", "ValidationResults",
     "HeavyStartStop", "HeavyPayload", "GetObjectIndex", "Unlisted"}

\* t.SaveAs of a CallConstructor
SaveAsModes == {"Delegate", "Child"}

Messages == [type : MessageTypes, saveAs : SaveAsModes, depth : 0..MaxParcelDepth]

\* `panic(fmt.Sprintf("unknow message type - %v", t))`
Panic == "panic"

\* the switch of ExtractTarget on a message that is not a Parcel
TargetOf(type, saveAs) ==
    CASE type = "GenesisRequest" -> "NewRefFromBase58(Name)"
      [] type = "CallConstructor" ->
            IF saveAs = "Delegate" THEN "ParentRef" ELSE "genRequest"
      [] type = "CallMethod" -> "ObjectRef"
      [] type = "ExecutorResults" -> "RecordRef"
      [] type = "GetChildren" -> "Parent"
      [] type = "GetCode" -> "Code"
      [] type = "GetDelegate" -> "Head"
      [] type = "GetObject" -> "Head"
      [] type = "JetDrop" -> "Jet"
      [] type = "RegisterChild" -> "Parent"
      [] type = "SetBlob" -> "TargetRef"
      [] type = "SetRecord" -> "TargetRef"
      [] type = "UpdateObject" -> "Object"
      [] type = "ValidateCaseBind" -> "RecordRef"
      [] type = "ValidateRecord" -> "Object"
      [] type = "ValidationResults" -> "RecordRef"
      [] type = "HeavyPayload" -> "RecordRef{}"
      [] type = "GetObjectIndex" -> "Object"
      [] OTHER -> Panic

\* the switch of ExtractRole on a message that is not a Parcel
RoleOf(type) ==
    CASE type = "GenesisRequest" -> "DynamicRoleLightExecutor"
      [] type = "CallConstructor" -> "DynamicRoleVirtualExecutor"
      [] type = "CallMethod" -> "DynamicRoleVirtualExecutor"
      [] type = "ExecutorResults" -> "DynamicRoleVirtualExecutor"
      [] type = "GetChildren" -> "DynamicRoleLightExecutor"
      [] type = "GetCode" -> "DynamicRoleLightExecutor"
      [] type = "GetDelegate" -> "DynamicRoleLightExecutor"
      [] type = "GetObject" -> "DynamicRoleLightExecutor"
      [] type = "JetDrop" -> "DynamicRoleLightExecutor"
      [] type = "RegisterChild" -> "DynamicRoleLightExecutor"
      [] type = "SetBlob" -> "DynamicRoleLightExecutor"
      [] type = "SetRecord" -> "DynamicRoleLightExecutor"
      [] type = "UpdateObject" -> "DynamicRoleLightExecutor"
      [] type = "ValidateCaseBind" -> "DynamicRoleVirtualValidator"
      [] type = "ValidateRecord" -> "DynamicRoleLightExecutor"
      [] type = "ValidationResults" -> "DynamicRoleVirtualExecutor"
      [] type \in {"HeavyStartStop", "HeavyPayload", "GetObjectIndex"} ->
            "DynamicRoleHeavyExecutor"
      [] OTHER -> Panic

\* `case *Parcel: return ExtractTarget(t.Msg)`
RECURSIVE ExtractTarget(_)
ExtractTarget(msg) ==
    IF msg.depth > 0
    THEN ExtractTarget([msg EXCEPT !.depth = @ - 1])
    ELSE TargetOf(msg.type, msg.saveAs)

\* `case *Parcel: return ExtractRole(t.Msg)`
RECURSIVE ExtractRole(_)
ExtractRole(msg) ==
    IF msg.depth > 0
    THEN ExtractRole([msg EXCEPT !.depth = @ - 1])
    ELSE RoleOf(msg.type)

InitMh ==
    /\ mhPc = "idle"
    /\ mhMsg = [type |-> "Unlisted", saveAs |-> "Child", depth |-> 0]
    /\ mhTarget = "none"
    /\ mhRole = "none"

\* a call of ExtractTarget
CallExtractTarget ==
    /\ mhPc = "idle"
    /\ \E msg \in Messages :
          /\ mhMsg' = msg
          /\ mhTarget' = ExtractTarget(msg)
    /\ mhPc' = "target"
    /\ UNCHANGED mhRole
    /\ UNCHANGED notMh

\* a call of ExtractRole on the message ExtractTarget was called on
CallExtractRole ==
    /\ mhPc = "target"
    /\ mhRole' = ExtractRole(mhMsg)
    /\ mhPc' = "done"
    /\ UNCHANGED <<mhMsg, mhTarget>>
    /\ UNCHANGED notMh

NextMh == CallExtractTarget \/ CallExtractRole

(***************************************************************************)
(* Part 11: Table.GetRandomNodes.  An active node is its ID and whether    *)
(* host.NewAddress accepts its physical address.                           *)
(***************************************************************************)
\* the most active nodes of the NodeKeeper, and the largest count asked
MaxActiveNodes == 3
MaxCount == 3

\* the lists t.NodeKeeper.GetActiveNodes() can give: nodes of IDs 1..n
ActiveNodeLists ==
    UNION {[1..n -> [id : 1..MaxActiveNodes, addressOk : BOOLEAN]] :
              n \in 0..MaxActiveNodes}

\* the loop `for _, n := range nodes`: a node whose address does not parse
\* is skipped, every other is appended
RECURSIVE HostsOf(_)
HostsOf(nodes) ==
    IF nodes = <<>> THEN <<>>
    ELSE IF Head(nodes).addressOk
         THEN <<Head(nodes).id>> \o HostsOf(Tail(nodes))
         ELSE HostsOf(Tail(nodes))

\* GetRandomNodes(count)
GetRandomNodes(nodes, count) == HostsOf(nodes)

InitRn ==
    /\ rnPc = "idle"
    /\ rnCount = 0
    /\ rnNodes = <<>>
    /\ rnResult = <<>>

\* a call of GetRandomNodes with the active nodes of the moment
CallGetRandomNodes ==
    /\ rnPc = "idle"
    /\ \E count \in 0..MaxCount, nodes \in ActiveNodeLists :
          /\ \A i \in 1..Len(nodes) : nodes[i].id = i
          /\ rnCount' = count
          /\ rnNodes' = nodes
          /\ rnResult' = GetRandomNodes(nodes, count)
    /\ rnPc' = "returned"
    /\ UNCHANGED notRn

NextRn == CallGetRandomNodes

(***************************************************************************)
(* Part 12: storage.RecentObjectsIndex.  The map holds pointers: a meta is *)
(* a number, its TTL is in metaTTL, and the map GetObjects returns holds   *)
(* the same metas as the index.                                            *)
(***************************************************************************)
\* the largest TTL, and the most metas allocated in one run
MaxTTL == 1
MaxMetas == 2

RecordIDs == {1, 2}
Metas == 1..MaxMetas
NoMeta == 0
IndexCallers == {"c1", "c2"}

\* the keys of a map of metas
KeysOf(objects) == {id \in RecordIDs : objects[id] # NoMeta}

\* a mutation of AddID's writes of the TTL: the TTL is left as it is
KeepTTL(ttls, meta, ttl) == ttls

\* `TTL: r.DefaultTTL` of a new meta and `value.TTL = r.DefaultTTL`
SetTTL(ttls, meta, ttl) == [ttls EXCEPT ![meta] = ttl]

\* AddID on the map: a new entry for an id without one
AddIDObjects(objects, id, meta) ==
    IF objects[id] = NoMeta THEN [objects EXCEPT ![id] = meta] ELSE objects

\* the meta AddID writes the TTL of
AddIDMeta(objects, id, meta) ==
    IF objects[id] = NoMeta THEN meta ELSE objects[id]

\* GetObjects: `targetMap[key] = value` for every entry
GetObjects(objects) == [id \in RecordIDs |-> objects[id]]

\* ClearZeroTTLObjects: `if value.TTL == 0 { delete(r.recentObjects, key) }`
ClearZeroTTL(objects, ttls) ==
    [id \in RecordIDs |->
        IF objects[id] # NoMeta /\ ttls[objects[id]] = 0 THEN NoMeta ELSE objects[id]]

InitRoi ==
    /\ roiPc = "none"
    /\ defaultTTL = 0
    /\ recentObjects = [id \in RecordIDs |-> NoMeta]
    /\ metaTTL = [m \in Metas |-> 0]
    /\ nextMeta = 1
    /\ objectLock = NoCaller
    /\ pendingRequests = {}
    /\ addIDPc = [g \in IndexCallers |-> "idle"]
    /\ addIDArg = [g \in IndexCallers |-> 0]
    /\ gotObjects = [id \in RecordIDs |-> NoMeta]
    /\ addedIDs = {}
    /\ lastAddID = "none"

\* NewRecentObjectsIndex(defaultTTL)
NewRecentObjectsIndex ==
    /\ roiPc = "none"
    /\ roiPc' = "made"
    /\ \E ttl \in 0..MaxTTL : defaultTTL' = ttl
    /\ UNCHANGED <<recentObjects, metaTTL, nextMeta, objectLock, pendingRequests,
                   addIDPc, addIDArg, gotObjects, addedIDs, lastAddID>>
    /\ UNCHANGED notRoi

\* AddID(id) of caller g: r.objectLock.Lock()
AddIDLock(g, id) ==
    /\ roiPc = "made"
    /\ addIDPc[g] = "idle"
    /\ objectLock = NoCaller
    /\ objectLock' = g
    /\ addIDPc' = [addIDPc EXCEPT ![g] = "locked"]
    /\ addIDArg' = [addIDArg EXCEPT ![g] = id]
    /\ UNCHANGED <<roiPc, defaultTTL, recentObjects, metaTTL, nextMeta,
                   pendingRequests, gotObjects, addedIDs, lastAddID>>
    /\ UNCHANGED notRoi

\* AddID(id) of caller g from the lookup to the deferred Unlock
AddIDStore(g) ==
    /\ addIDPc[g] = "locked"
    /\ recentObjects[addIDArg[g]] = NoMeta => nextMeta <= MaxMetas
    /\ recentObjects' = AddIDObjects(recentObjects, addIDArg[g], nextMeta)
    /\ metaTTL' = SetTTL(metaTTL, AddIDMeta(recentObjects, addIDArg[g], nextMeta),
                         defaultTTL)
    /\ nextMeta' = IF recentObjects[addIDArg[g]] = NoMeta THEN nextMeta + 1 ELSE nextMeta
    /\ objectLock' = NoCaller
    /\ addIDPc' = [addIDPc EXCEPT ![g] = "idle"]
    /\ addedIDs' = addedIDs \cup {addIDArg[g]}
    /\ lastAddID' = IF recentObjects[addIDArg[g]] = NoMeta THEN "absent"
                     ELSE IF metaTTL[recentObjects[addIDArg[g]]] = defaultTTL
                     THEN "present" ELSE "lowered"
    /\ UNCHANGED <<roiPc, defaultTTL, pendingRequests, addIDArg, gotObjects>>
    /\ UNCHANGED notRoi

\* AddPendingRequest(id), under r.requestLock
AddPendingRequest(id) ==
    /\ roiPc = "made"
    /\ id \notin pendingRequests
    /\ pendingRequests' = pendingRequests \cup {id}
    /\ UNCHANGED <<roiPc, defaultTTL, recentObjects, metaTTL, nextMeta, objectLock,
                   addIDPc, addIDArg, gotObjects, addedIDs, lastAddID>>
    /\ UNCHANGED notRoi

\* GetObjects(), under r.objectLock
CallGetObjects ==
    /\ roiPc = "made"
    /\ objectLock = NoCaller
    /\ gotObjects' = GetObjects(recentObjects)
    /\ UNCHANGED <<roiPc, defaultTTL, recentObjects, metaTTL, nextMeta, objectLock,
                   pendingRequests, addIDPc, addIDArg, addedIDs, lastAddID>>
    /\ UNCHANGED notRoi

\* the caller of GetObjects lowers the TTL of a meta of the map it was given:
\* the map holds the metas of the index, not copies
HolderLowersTTL(id) ==
    /\ gotObjects[id] # NoMeta
    /\ metaTTL[gotObjects[id]] > 0
    /\ metaTTL' = [metaTTL EXCEPT ![gotObjects[id]] = @ - 1]
    /\ UNCHANGED <<roiPc, defaultTTL, recentObjects, nextMeta, objectLock,
                   pendingRequests, addIDPc, addIDArg, gotObjects, addedIDs, lastAddID>>
    /\ UNCHANGED notRoi

\* ClearZeroTTLObjects(), under r.objectLock
ClearZeroTTLObjects ==
    /\ roiPc = "made"
    /\ objectLock = NoCaller
    /\ recentObjects' = ClearZeroTTL(recentObjects, metaTTL)
    /\ addedIDs' = addedIDs \ (KeysOf(recentObjects) \ KeysOf(ClearZeroTTL(recentObjects, metaTTL)))
    /\ UNCHANGED <<roiPc, defaultTTL, metaTTL, nextMeta, objectLock, pendingRequests,
                   addIDPc, addIDArg, gotObjects, lastAddID>>
    /\ UNCHANGED notRoi

\* ClearObjects(), under r.objectLock
ClearObjects ==
    /\ roiPc = "made"
    /\ objectLock = NoCaller
    /\ recentObjects' = [id \in RecordIDs |-> NoMeta]
    /\ addedIDs' = {}
    /\ UNCHANGED <<roiPc, defaultTTL, metaTTL, nextMeta, objectLock, pendingRequests,
                   addIDPc, addIDArg, gotObjects, lastAddID>>
    /\ UNCHANGED notRoi

NextRoi ==
    \/ NewRecentObjectsIndex
    \/ \E g \in IndexCallers, id \in RecordIDs : AddIDLock(g, id)
    \/ \E g \in IndexCallers : AddIDStore(g)
    \/ \E id \in RecordIDs : AddPendingRequest(id)
    \/ CallGetObjects
    \/ \E id \in RecordIDs : HolderLowersTTL(id)
    \/ ClearZeroTTLObjects
    \/ ClearObjects

(***************************************************************************)
(* Part 13: Bootstrap and iterateHt.  The node has one routing table per   *)
(* origin ID; table i has the origin ID TableOrigin(i).                    *)
(***************************************************************************)
\* the most routing tables (origin IDs) of a node
MaxTables == 3

\* dht.options.BootstrapNodes
BootstrapNodes == {"b1", "b2"}

\* ht.Origin.ID of table i
TableOrigin(i) == 10 + i

\* dht.NumNodes(ctx) for the table of the context
NumNodes(tables, i) == Cardinality(tables[i])

\* what iterate(ctx, routing.IterateBootstrap, ...) returns as its error
IterateErrors == {"nil", "error"}

InitBs ==
    /\ bsPc = "idle"
    /\ bsTables = <<>>
    /\ bsIndex = 0
    /\ bsIterated = {}
    /\ bsErr = "none"

\* Bootstrap on a node of n tables up to wg.Wait(): iterateBootstrapNodes
\* adds the bootstrap nodes of known ID and pings the others
BootstrapStart ==
    /\ bsPc = "idle"
    /\ \E n \in 1..MaxTables : bsTables' = [i \in 1..n |-> {}]
    /\ bsPc' = "waiting"
    /\ UNCHANGED <<bsIndex, bsIterated, bsErr>>
    /\ UNCHANGED notBs

\* wg.Wait() returns: every ping was answered (addNode on the table of
\* result.Receiver.ID) or timed out; `added` are the contacts of each table
BootstrapPingsDone ==
    /\ bsPc = "waiting"
    /\ \E added \in [DOMAIN bsTables -> SUBSET BootstrapNodes] : bsTables' = added
    /\ bsPc' = "iterateHt"
    /\ bsIndex' = 1
    /\ UNCHANGED <<bsIterated, bsErr>>
    /\ UNCHANGED notBs

\* iterateHt: a table without contacts is passed over
IterateHtSkip ==
    /\ bsPc = "iterateHt"
    /\ bsIndex <= Len(bsTables)
    /\ NumNodes(bsTables, bsIndex) = 0
    /\ bsIndex' = bsIndex + 1
    /\ UNCHANGED <<bsPc, bsTables, bsIterated, bsErr>>
    /\ UNCHANGED notBs

\* iterateHt: `if dht.NumNodes(ctx) > 0 { _, _, err = dht.iterate(...);
\* return err }`
IterateHtIterate ==
    /\ bsPc = "iterateHt"
    /\ bsIndex <= Len(bsTables)
    /\ NumNodes(bsTables, bsIndex) > 0
    /\ bsIterated' = bsIterated \cup {[table |-> bsIndex, target |-> TableOrigin(bsIndex)]}
    /\ \E err \in IterateErrors : bsErr' = err
    /\ bsPc' = "returned"
    /\ UNCHANGED <<bsTables, bsIndex>>
    /\ UNCHANGED notBs

\* iterateHt: the loop is over, `return nil`
IterateHtEnd ==
    /\ bsPc = "iterateHt"
    /\ bsIndex > Len(bsTables)
    /\ bsErr' = "nil"
    /\ bsPc' = "returned"
    /\ UNCHANGED <<bsTables, bsIndex, bsIterated>>
    /\ UNCHANGED notBs

NextBs ==
    BootstrapStart \/ BootstrapPingsDone \/ IterateHtSkip \/ IterateHtIterate \/ IterateHtEnd

(***************************************************************************)
(* Part 14: dht.auth.mut and the reads and writes of authenticatedNodes,   *)
(* SentKeys and ReceivedKeys, by the packet loop ("loop") and by a caller  *)
(* of AuthenticationRequest and CheckOriginRequest ("api").  A handler is  *)
(* the sequence of its lock operations and map accesses.                   *)
(***************************************************************************)
AuthMaps == {"authenticatedNodes", "SentKeys", "ReceivedKeys"}

Lock == [op |-> "Lock", map |-> "none"]
Unlock == [op |-> "Unlock", map |-> "none"]
Read(map) == [op |-> "Read", map |-> map]
Write(map) == [op |-> "Write", map |-> map]

\* the lock operations and the accesses of each handler, in program order
AccessSteps(handler) ==
    CASE handler = "processRelay" -> <<Read("authenticatedNodes")>>
      [] handler = "processAuthenticationRefused" -> <<Read("authenticatedNodes")>>
      [] handler = "processAuthenticationBegin" ->
            <<Read("authenticatedNodes"), Write("SentKeys")>>
      [] handler = "processAuthenticationRevoke" -> <<Write("authenticatedNodes")>>
      [] handler = "processCheckOriginRequest" -> <<Lock, Read("ReceivedKeys"), Unlock>>
      [] handler = "handleCheckOriginResponse" ->
            <<Read("SentKeys"), Write("SentKeys"), Write("authenticatedNodes")>>
      [] handler = "handleAuthResponse" -> <<Lock, Write("ReceivedKeys"), Unlock>>

\* the handlers each goroutine runs: dispatchPacketType and the
\* CheckOriginRequest of processAuthentication in the packet loop,
\* AuthenticationRequest and CheckOriginRequest in their caller
HandlersOf(g) ==
    IF g = "loop"
    THEN {"processRelay", "processAuthenticationRefused", "processAuthenticationBegin",
          "processAuthenticationRevoke", "processCheckOriginRequest",
          "handleCheckOriginResponse"}
    ELSE {"handleCheckOriginResponse", "handleAuthResponse"}

\* the step a goroutine is at, or Unlock past the end of its handler
StepOf(g) ==
    IF accHandler[g] # "none" /\ accStep[g] <= Len(AccessSteps(accHandler[g]))
    THEN AccessSteps(accHandler[g])[accStep[g]]
    ELSE [op |-> "none", map |-> "none"]

InitAcc ==
    /\ authMut = NoCaller
    /\ accHandler = [g \in Goroutines |-> "none"]
    /\ accStep = [g \in Goroutines |-> 0]
    /\ accessing = [g \in Goroutines |-> "none"]

\* a goroutine enters a handler
HandlerStarts(g, handler) ==
    /\ accHandler[g] = "none"
    /\ handler \in HandlersOf(g)
    /\ accHandler' = [accHandler EXCEPT ![g] = handler]
    /\ accStep' = [accStep EXCEPT ![g] = 1]
    /\ UNCHANGED <<authMut, accessing>>
    /\ UNCHANGED notAcc

\* dht.auth.mut.Lock()
MutLock(g) ==
    /\ StepOf(g).op = "Lock"
    /\ authMut = NoCaller
    /\ authMut' = g
    /\ accStep' = [accStep EXCEPT ![g] = @ + 1]
    /\ UNCHANGED <<accHandler, accessing>>
    /\ UNCHANGED notAcc

\* the deferred dht.auth.mut.Unlock()
MutUnlock(g) ==
    /\ StepOf(g).op = "Unlock"
    /\ authMut' = NoCaller
    /\ accStep' = [accStep EXCEPT ![g] = @ + 1]
    /\ UNCHANGED <<accHandler, accessing>>
    /\ UNCHANGED notAcc

\* a read or write of a map begins
AccessBegins(g) ==
    /\ StepOf(g).op \in {"Read", "Write"}
    /\ accessing[g] = "none"
    /\ accessing' = [accessing EXCEPT ![g] = StepOf(g).map]
    /\ UNCHANGED <<authMut, accHandler, accStep>>
    /\ UNCHANGED notAcc

\* the read or write is over
AccessEnds(g) ==
    /\ accessing[g] # "none"
    /\ accessing' = [accessing EXCEPT ![g] = "none"]
    /\ accStep' = [accStep EXCEPT ![g] = @ + 1]
    /\ UNCHANGED <<authMut, accHandler>>
    /\ UNCHANGED notAcc

\* the handler returns
HandlerReturns(g) ==
    /\ accHandler[g] # "none"
    /\ accStep[g] > Len(AccessSteps(accHandler[g]))
    /\ accHandler' = [accHandler EXCEPT ![g] = "none"]
    /\ accStep' = [accStep EXCEPT ![g] = 0]
    /\ UNCHANGED <<authMut, accessing>>
    /\ UNCHANGED notAcc

NextAcc ==
    \/ \E g \in Goroutines : \E handler \in HandlersOf(g) : HandlerStarts(g, handler)
    \/ \E g \in Goroutines : MutLock(g)
    \/ \E g \in Goroutines : MutUnlock(g)
    \/ \E g \in Goroutines : AccessBegins(g)
    \/ \E g \in Goroutines : AccessEnds(g)
    \/ \E g \in Goroutines : HandlerReturns(g)

(***************************************************************************)
(* Part 15: dispatchPacketType for the requests Ping, FindNode and Store,  *)
(* on the routing table of the origin.                                     *)
(***************************************************************************)
RequestTypes == {"TypePing", "TypeFindNode", "TypeStore"}
NoMsg == [type |-> "none", sender |-> OriginID]
\* packetBuilder.Response(nil)
EmptyAck == [data |-> "nil"]

InitDp ==
    /\ dpTable = [i \in 0..(KeyBitSize - 1) |-> <<>>]
    /\ dpMsg = NoMsg
    /\ dpResponse = [data |-> "none"]

\* processPing: the response is sent, nothing else is done
ProcessPing(sender) ==
    /\ dpMsg' = [type |-> "TypePing", sender |-> sender]
    /\ dpResponse' = EmptyAck
    /\ UNCHANGED dpTable
    /\ UNCHANGED notDp

\* processFindNode: addNode(msg.Sender), then the closest contacts without
\* the sender
ProcessFindNode(sender, tgt) ==
    /\ dpMsg' = [type |-> "TypeFindNode", sender |-> sender]
    /\ \E answered \in BOOLEAN :
          /\ dpTable' = AddNode(dpTable, sender, answered)
          /\ dpResponse' =
                [data |-> GetClosestContacts(AddNode(dpTable, sender, answered),
                                             MaxContactsInBucket, tgt, {sender})]
    /\ UNCHANGED notDp

\* processStore: addNode(msg.Sender) and the store; no response is sent
ProcessStore(sender) ==
    /\ dpMsg' = [type |-> "TypeStore", sender |-> sender]
    /\ \E answered \in BOOLEAN : dpTable' = AddNode(dpTable, sender, answered)
    /\ dpResponse' = [data |-> "none"]
    /\ UNCHANGED notDp

NextDp ==
    \/ \E sender \in Peers : ProcessPing(sender)
    \/ \E sender \in Peers, tgt \in Targets : ProcessFindNode(sender, tgt)
    \/ \E sender \in Peers : ProcessStore(sender)

(***************************************************************************)
(* Part 16: AnalyzeNetwork's gossip of KnownOuterNodes through the home    *)
(* subnet: knownOuterNodesRequest, processKnownOuterNodes at the peer and  *)
(* handleKnownOuterNodes at the requester.                                 *)
(***************************************************************************)
MaxOuterNodes == 2

SubnetNodes == {"s1", "s2", "s3"}
\* the zero value of HighKnownOuterNodesNode.ID
NoID == ""
\* dht.subnet.SubnetIDs[dht.subnet.HomeSubnetKey] of a node, in order
HomeSubnetIDs(n) ==
    CASE n = "s1" -> <<"s2", "s3">>
      [] n = "s2" -> <<"s3", "s1">>
      [] OTHER    -> <<"s1", "s2">>
NoPacket == [kind |-> "none"]

\* packet.NewKnownOuterNodesPacket: the sender's ID and the count given
RequestKnownOuterNodes(sender, target, nodes) ==
    [kind |-> "request", sender |-> sender, receiver |-> target,
     ID |-> sender, OuterNodes |-> nodes]

\* processKnownOuterNodes: the better of the peer's record and the request
ResponseKnownOuterNodes(peer, data) ==
    [kind |-> "response", sender |-> peer, receiver |-> data.sender,
     ID |-> IF data.OuterNodes > highOuterNodes[peer]
            THEN data.ID ELSE highID[peer],
     OuterNodes |-> IF data.OuterNodes > highOuterNodes[peer]
                    THEN data.OuterNodes ELSE highOuterNodes[peer]]

\* the requests handleKnownOuterNodes sends after a response of targetID:
\* Auth(begin), and StartRelay when the authentication returned no error
RequestsSent(n, response, targetID, authOk) ==
    {[from |-> n, type |-> "TypeAuth", target |-> targetID,
      named |-> response.ID]}
    \cup (IF authOk
          THEN {[from |-> n, type |-> "TypeRelay", target |-> targetID,
                 named |-> response.ID]}
          ELSE {})

InitKon ==
    /\ selfKnownOuterNodes = [n \in SubnetNodes |-> 0]
    /\ highID = [n \in SubnetNodes |-> NoID]
    /\ highOuterNodes = [n \in SubnetNodes |-> 0]
    /\ konProxyNodes = [n \in SubnetNodes |-> {}]
    /\ konPc = [n \in SubnetNodes |-> "idle"]
    /\ konTodo = [n \in SubnetNodes |-> <<>>]
    /\ konMsg = NoPacket
    /\ konSent = {}

\* AnalyzeNetwork up to the loop: countOuterNodes adds the outer nodes found
\* to SelfKnownOuterNodes, OuterNodes is set to it
AnalyzeNetworkStart(n, found) ==
    /\ konPc[n] = "idle"
    /\ selfKnownOuterNodes[n] + found <= MaxOuterNodes
    /\ selfKnownOuterNodes' =
          [selfKnownOuterNodes EXCEPT ![n] = selfKnownOuterNodes[n] + found]
    /\ highOuterNodes' =
          [highOuterNodes EXCEPT ![n] = selfKnownOuterNodes[n] + found]
    /\ konTodo' = [konTodo EXCEPT ![n] = HomeSubnetIDs(n)]
    /\ konPc' = [konPc EXCEPT ![n] = "gossip"]
    /\ UNCHANGED <<highID, konProxyNodes, konMsg, konSent>>
    /\ UNCHANGED notKon

\* knownOuterNodesRequest(ids, dht.subnet.HighKnownNodes.OuterNodes)
KnownOuterNodesRequest(n) ==
    /\ konPc[n] = "gossip"
    /\ konTodo[n] # <<>>
    /\ konMsg = NoPacket
    /\ konMsg' = RequestKnownOuterNodes(n, Head(konTodo[n]), highOuterNodes[n])
    /\ konTodo' = [konTodo EXCEPT ![n] = Tail(konTodo[n])]
    /\ konPc' = [konPc EXCEPT ![n] = "waiting"]
    /\ konSent' = {}
    /\ UNCHANGED <<selfKnownOuterNodes, highID, highOuterNodes, konProxyNodes>>
    /\ UNCHANGED notKon

\* the loop of AnalyzeNetwork is over
AnalyzeNetworkEnd(n) ==
    /\ konPc[n] = "gossip"
    /\ konTodo[n] = <<>>
    /\ konPc' = [konPc EXCEPT ![n] = "idle"]
    /\ UNCHANGED <<selfKnownOuterNodes, highID, highOuterNodes, konProxyNodes,
                   konTodo, konMsg, konSent>>
    /\ UNCHANGED notKon

\* processKnownOuterNodes at the peer asked: its own record is not changed
ProcessKnownOuterNodes(peer) ==
    /\ konMsg.kind = "request"
    /\ konMsg.receiver = peer
    /\ konMsg' = ResponseKnownOuterNodes(peer, konMsg)
    /\ UNCHANGED <<selfKnownOuterNodes, highID, highOuterNodes, konProxyNodes,
                   konPc, konTodo, konSent>>
    /\ UNCHANGED notKon

\* handleKnownOuterNodes(ctx, response, targetID): the record is updated;
\* with a count above the node's own and no proxy, AuthenticationRequest and
\* RelayRequest go to targetID; an error of one of them ends AnalyzeNetwork
HandleKnownOuterNodes(n) ==
    /\ konPc[n] = "waiting"
    /\ konMsg.kind = "response"
    /\ konMsg.receiver = n
    /\ konMsg' = NoPacket
    /\ IF konMsg.OuterNodes > highOuterNodes[n]
       THEN /\ highOuterNodes' = [highOuterNodes EXCEPT ![n] = konMsg.OuterNodes]
            /\ highID' = [highID EXCEPT ![n] = konMsg.ID]
       ELSE UNCHANGED <<highOuterNodes, highID>>
    /\ IF konMsg.OuterNodes > selfKnownOuterNodes[n] /\ konProxyNodes[n] = {}
       THEN \E authOk \in BOOLEAN, relayStarted \in BOOLEAN :
               /\ konSent' = RequestsSent(n, konMsg, konMsg.sender, authOk)
               /\ IF authOk /\ relayStarted
                  THEN /\ konProxyNodes' =
                             [konProxyNodes EXCEPT ![n] = {konMsg.sender}]
                       /\ konPc' = [konPc EXCEPT ![n] = "gossip"]
                       /\ UNCHANGED konTodo
                  ELSE /\ konPc' = [konPc EXCEPT ![n] = "idle"]
                       /\ konTodo' = [konTodo EXCEPT ![n] = <<>>]
                       /\ UNCHANGED konProxyNodes
       ELSE /\ konPc' = [konPc EXCEPT ![n] = "gossip"]
            /\ UNCHANGED <<konProxyNodes, konTodo, konSent>>
    /\ UNCHANGED selfKnownOuterNodes
    /\ UNCHANGED notKon

\* knownOuterNodesRequest: case <-time.After(PacketTimeout); the future is
\* cancelled and the error ends AnalyzeNetwork
KnownOuterNodesTimeout(n) ==
    /\ konPc[n] = "waiting"
    /\ konMsg # NoPacket
    /\ konMsg' = NoPacket
    /\ konPc' = [konPc EXCEPT ![n] = "idle"]
    /\ konTodo' = [konTodo EXCEPT ![n] = <<>>]
    /\ UNCHANGED <<selfKnownOuterNodes, highID, highOuterNodes, konProxyNodes,
                   konSent>>
    /\ UNCHANGED notKon

NextKon ==
    \/ \E n \in SubnetNodes, found \in 0..MaxOuterNodes :
          AnalyzeNetworkStart(n, found)
    \/ \E n \in SubnetNodes : KnownOuterNodesRequest(n)
    \/ \E n \in SubnetNodes : AnalyzeNetworkEnd(n)
    \/ \E peer \in SubnetNodes : ProcessKnownOuterNodes(peer)
    \/ \E n \in SubnetNodes : HandleKnownOuterNodes(n)
    \/ \E n \in SubnetNodes : KnownOuterNodesTimeout(n)

(***************************************************************************)
(* Part 17: the end of AnalyzeNetwork: a node with one subnet entry and no *)
(* home subnet key offers itself as relay with sendRelayOwnership.         *)
(***************************************************************************)
MaxSubnetIDs == 2

LocalPeers == {"r1", "r2", "r3"}
SubnetKeys == {"ip1", "ip2"}
NoHomeSubnetKey == ""
\* the lists of distinct IDs of one subnet entry
SubnetIDLists ==
    {s \in UNION {[1..n -> LocalPeers] : n \in 0..MaxSubnetIDs} :
        \A i, j \in 1..Len(s) : i # j => s[i] # s[j]}
\* what relayOwnershipRequest meets
OfferOutcomes == {"findNodeError", "notFound", "sendError", "closed",
                  "accepted", "refused", "timeout"}
\* the error relayOwnershipRequest returns: nil after a response (also for
\* rsp == nil, where the nil err of SendRequest is returned)
OfferError(outcome) ==
    IF outcome \in {"closed", "accepted", "refused"} THEN "nil" ELSE outcome
\* handleRelayOwnership
HandleRelayOwnership(ids, outcome, target) ==
    IF outcome = "accepted" THEN Append(ids, target) ELSE ids
\* the static node of AnalyzeNetwork
IsStatic == Cardinality(DOMAIN SubnetIDs) = 1 /\ HomeSubnetKey = NoHomeSubnetKey

InitRo ==
    /\ roPc = "idle"
    /\ SubnetIDs = [k \in {"ip1"} |-> <<>>]
    /\ HomeSubnetKey = NoHomeSubnetKey
    /\ roTodo = <<>>
    /\ PossibleRelayIDs = <<>>
    /\ roOffered = <<>>
    /\ roAccepted = {}

\* AnalyzeNetwork after the gossip: `if len(dht.subnet.SubnetIDs) == 1` and
\* `if dht.subnet.HomeSubnetKey == ""`
AnalyzeNetworkOffers(keys, ids, homeKey) ==
    /\ roPc = "idle"
    /\ SubnetIDs' = [k \in keys |-> IF k = "ip1" THEN ids ELSE <<"r3">>]
    /\ HomeSubnetKey' = homeKey
    /\ IF Cardinality(keys) = 1 /\ homeKey = NoHomeSubnetKey
       THEN /\ roPc' = "offer"
            /\ roTodo' = ids
       ELSE /\ roPc' = "returned"
            /\ roTodo' = <<>>
    /\ UNCHANGED <<PossibleRelayIDs, roOffered, roAccepted>>
    /\ UNCHANGED notRo

\* one turn of the loop of sendRelayOwnership:
\*     err := dht.relayOwnershipRequest(id1, true)
\*     log.Println(err.Error())
\* err.Error() of a nil error is a nil dereference: the goroutine panics
SendRelayOwnership(outcome) ==
    /\ roPc = "offer"
    /\ roTodo # <<>>
    /\ roOffered' = Append(roOffered, Head(roTodo))
    /\ PossibleRelayIDs' =
          HandleRelayOwnership(PossibleRelayIDs, outcome, Head(roTodo))
    /\ roAccepted' = IF outcome = "accepted"
                     THEN roAccepted \cup {Head(roTodo)} ELSE roAccepted
    /\ IF OfferError(outcome) = "nil"
       THEN /\ roPc' = "panicked"
            /\ UNCHANGED roTodo
       ELSE /\ roTodo' = Tail(roTodo)
            /\ UNCHANGED roPc
    /\ UNCHANGED <<SubnetIDs, HomeSubnetKey>>
    /\ UNCHANGED notRo

\* the loop is over: AnalyzeNetwork returns nil
AnalyzeNetworkReturns ==
    /\ roPc = "offer"
    /\ roTodo = <<>>
    /\ roPc' = "returned"
    /\ UNCHANGED <<SubnetIDs, HomeSubnetKey, roTodo, PossibleRelayIDs,
                   roOffered, roAccepted>>
    /\ UNCHANGED notRo

NextRo ==
    \/ \E keys \in {{"ip1"}, SubnetKeys}, ids \in SubnetIDLists,
          homeKey \in {NoHomeSubnetKey, "ip1"} :
          AnalyzeNetworkOffers(keys, ids, homeKey)
    \/ \E outcome \in OfferOutcomes : SendRelayOwnership(outcome)
    \/ AnalyzeNetworkReturns

(***************************************************************************)
(* Part 18: PartitialTimeoutPhaseManager.OnPulse: the three phases of a    *)
(* pulse.                                                                  *)
(***************************************************************************)
NoError == "nil"
\* the errors FirstPhase.Execute returns
FirstPhaseErrors == {"GetPulseProof", "SetPulseProof", "GetOriginClaim",
                     "AddClaim", "signPhase1Packet", "ExchangePhase1",
                     "detectSparseBitsetLength"}
\* the errors of SecondPhase.Execute and ThirdPhase.Execute
LaterPhaseErrors == {"failed"}
ExecuteResults(phase) ==
    {NoError} \cup (IF phase = 1 THEN FirstPhaseErrors ELSE LaterPhaseErrors)

\* errors.Wrap(err, message)
Wrap(err, message) == [message |-> message, cause |-> err]
\* the nil error OnPulse returns
NilError == [message |-> "nil", cause |-> NoError]

\* every phase is followed by the next one
NextPhaseAlways(phase, err) == phase + 1

\* the phase OnPulse goes to after `phase` returned err; 0 is the return of
\* the wrapped error: only the error of phase 1 is returned, the errors of
\* phases 2 and 3 go to checkError, which logs them
NextPhase(phase, err) ==
    IF phase = 1 /\ err # NoError THEN 0 ELSE phase + 1

InitPm ==
    /\ pmPc = "idle"
    /\ pmPulse = 0
    /\ pmNext = 0
    /\ pmPhases = <<>>
    /\ pmFailed = {}
    /\ pmOnPulse = [message |-> "none", cause |-> "none"]

\* OnPulse(ctx, pulse) up to the first phase; getPulseDuration returns no
\* error
OnPulse(pulse) ==
    /\ pmPc \in {"idle", "returned"}
    /\ pulse > pmPulse
    /\ pmPc' = "phase"
    /\ pmPulse' = pulse
    /\ pmNext' = 1
    /\ pmPhases' = <<>>
    /\ pmFailed' = {}
    /\ pmOnPulse' = [message |-> "none", cause |-> "none"]
    /\ UNCHANGED notPm

\* Execute of the phase pmNext, and what OnPulse does with its error
ExecutePhase(err) ==
    /\ pmPc = "phase"
    /\ err \in ExecuteResults(pmNext)
    /\ pmPhases' = Append(pmPhases, pmNext)
    /\ pmFailed' = IF err # NoError THEN pmFailed \cup {pmNext} ELSE pmFailed
    /\ IF NextPhase(pmNext, err) = 0
       THEN /\ pmPc' = "returned"
            /\ pmOnPulse' = Wrap(err, "failed to execute a phase")
            /\ UNCHANGED pmNext
       ELSE IF NextPhase(pmNext, err) > 3
       THEN /\ pmPc' = "returned"
            /\ pmOnPulse' = NilError
            /\ UNCHANGED pmNext
       ELSE /\ pmNext' = NextPhase(pmNext, err)
            /\ UNCHANGED <<pmPc, pmOnPulse>>
    /\ UNCHANGED pmPulse
    /\ UNCHANGED notPm

NextPm ==
    \/ \E pulse \in 1..MaxPulse : OnPulse(pulse)
    \/ \E err \in {NoError} \cup FirstPhaseErrors \cup LaterPhaseErrors :
          ExecutePhase(err)

(***************************************************************************)
(* Part 19: FirstPhase.Execute: the packets of ExchangePhase1 are checked, *)
(* their proofs collected and split by validateProofs.                     *)
(***************************************************************************)
MaxSenders == 2

PacketSenders == {"p" \o ToString(i) : i \in 1..MaxSenders}
\* what decides the fate of a packet: the outcome of
\* isSignPhase1PacketRight (true, false, or an error of RawBytes), whether
\* UnsyncList.GetActiveNode knows the sender, and Calculator.IsValid of the
\* proof
Phase1Packets ==
    [sign : {"right", "wrong", "error"}, known : BOOLEAN, proofValid : BOOLEAN]
PacketMaps == UNION {[refs -> Phase1Packets] : refs \in SUBSET PacketSenders}

\* validateProof
validateProof(packets, nodeID) ==
    IF ~packets[nodeID].known THEN FALSE ELSE packets[nodeID].proofValid

InitFp ==
    /\ fpPc = "idle"
    /\ resultPackets = <<>>
    /\ fpTodo = {}
    /\ proofSet = {}
    /\ ValidProofs = {}
    /\ FaultProofs = {}

\* fp.Communicator.ExchangePhase1 returns the packets received
ExchangePhase1(packets) ==
    /\ fpPc = "idle"
    /\ fpPc' = "collect"
    /\ resultPackets' = packets
    /\ fpTodo' = DOMAIN packets
    /\ UNCHANGED <<proofSet, ValidProofs, FaultProofs>>
    /\ UNCHANGED notFp

\* one turn of `for ref, packet := range resultPackets`: an error of the
\* check is logged; a wrong signature comes with a nil err, and the
\* err.Error() of its log line is a nil dereference; otherwise the proof
\* goes into proofSet
CollectProof(ref) ==
    /\ fpPc = "collect"
    /\ ref \in fpTodo
    /\ IF resultPackets[ref].sign = "wrong"
       THEN /\ fpPc' = "panicked"
            /\ UNCHANGED <<fpTodo, proofSet>>
       ELSE /\ proofSet' = proofSet \cup {ref}
            /\ fpTodo' = fpTodo \ {ref}
            /\ UNCHANGED fpPc
    /\ UNCHANGED <<resultPackets, ValidProofs, FaultProofs>>
    /\ UNCHANGED notFp

\* validateProofs and the return of the FirstPhaseState
ValidateProofs ==
    /\ fpPc = "collect"
    /\ fpTodo = {}
    /\ ValidProofs' = {ref \in proofSet : validateProof(resultPackets, ref)}
    /\ FaultProofs' = {ref \in proofSet : ~validateProof(resultPackets, ref)}
    /\ fpPc' = "returned"
    /\ UNCHANGED <<resultPackets, fpTodo, proofSet>>
    /\ UNCHANGED notFp

NextFp ==
    \/ \E packets \in PacketMaps : ExchangePhase1(packets)
    \/ \E ref \in PacketSenders : CollectProof(ref)
    \/ ValidateProofs

(***************************************************************************)
(* Part 20: Bootstrap: getDiscoveryNodesChannel starts one goroutine for   *)
(* each discovery node, waitResultFromChannel takes one host.              *)
(***************************************************************************)
MaxDiscoveryNodes == 3

DiscoveryHosts == 1..MaxDiscoveryNodes
\* the nil *host.Host
NoHost == 0

InitGd ==
    /\ gdPc = [d \in DiscoveryHosts |-> "none"]
    /\ needResponses = 1
    /\ bootstrapHosts = <<>>
    /\ waitPc = "idle"
    /\ bootstrapHost = NoHost

\* Bootstrap: getDiscoveryNodesChannel(ctx, discoveryNodes, 1) makes the
\* channel and starts the goroutines, waitResultFromChannel begins
BootstrapCall(discoveryNodes) ==
    /\ waitPc = "idle"
    /\ gdPc' = [d \in DiscoveryHosts |->
                   IF d \in discoveryNodes THEN "bootstrap" ELSE "none"]
    /\ needResponses' = 1
    /\ bootstrapHosts' = <<>>
    /\ waitPc' = "select"
    /\ UNCHANGED bootstrapHost
    /\ UNCHANGED notGd

\* the goroutine of d: bootstrap(ctx, address, ...) returns the host
BootstrapAnswered(d) ==
    /\ gdPc[d] = "bootstrap"
    /\ gdPc' = [gdPc EXCEPT ![d] = "send"]
    /\ UNCHANGED <<needResponses, bootstrapHosts, waitPc, bootstrapHost>>
    /\ UNCHANGED notGd

\* the goroutine of d: bootstrap returns an error, the goroutine returns
BootstrapFailed(d) ==
    /\ gdPc[d] = "bootstrap"
    /\ gdPc' = [gdPc EXCEPT ![d] = "done"]
    /\ UNCHANGED <<needResponses, bootstrapHosts, waitPc, bootstrapHost>>
    /\ UNCHANGED notGd

\* the goroutine of d: `bootstrapHosts <- bootstrapHost` goes on when the
\* buffer has room
SendBootstrapHost(d) ==
    /\ gdPc[d] = "send"
    /\ Len(bootstrapHosts) < needResponses
    /\ bootstrapHosts' = Append(bootstrapHosts, d)
    /\ gdPc' = [gdPc EXCEPT ![d] = "done"]
    /\ UNCHANGED <<needResponses, waitPc, bootstrapHost>>
    /\ UNCHANGED notGd

\* waitResultFromChannel: `case bootstrapHost := <-ch`
WaitResultFromChannel ==
    /\ waitPc = "select"
    /\ bootstrapHosts # <<>>
    /\ bootstrapHost' = Head(bootstrapHosts)
    /\ bootstrapHosts' = Tail(bootstrapHosts)
    /\ waitPc' = "returned"
    /\ UNCHANGED <<gdPc, needResponses>>
    /\ UNCHANGED notGd

\* waitResultFromChannel: `case <-time.After(bc.options.BootstrapTimeout)`
WaitResultTimeout ==
    /\ waitPc = "select"
    /\ bootstrapHost' = NoHost
    /\ waitPc' = "returned"
    /\ UNCHANGED <<gdPc, needResponses, bootstrapHosts>>
    /\ UNCHANGED notGd

NextGd ==
    \/ \E discoveryNodes \in SUBSET DiscoveryHosts : BootstrapCall(discoveryNodes)
    \/ \E d \in DiscoveryHosts : BootstrapAnswered(d)
    \/ \E d \in DiscoveryHosts : BootstrapFailed(d)
    \/ \E d \in DiscoveryHosts : SendBootstrapHost(d)
    \/ WaitResultFromChannel
    \/ WaitResultTimeout

(***************************************************************************)
(* Part 21: selectTicker, `case <-ticker.C`: the refresh of the buckets    *)
(* not refreshed for more than RefreshTime.                                *)
(***************************************************************************)
MaxClock == 3
\* dht.options.RefreshTime in ticks of the ticker (3600 in the program)
RefreshTime == 1

NoBucket == 0 - 1
NoRefresh == [bucket |-> NoBucket, target |-> OriginID]

\* ht.GetRandomIDFromBucket(bucket): the IDs that fall into the bucket
GetRandomIDFromBucket(bucket) == {id \in IDs : id # OriginID /\ IndexOf(id) = bucket}

\* the bucket the sweep takes the target from: routing.MaxContactsInBucket
SweepBucket(i) == MaxContactsInBucket

\* checkAndRefreshTimeForBucket(IterateBootstrap, ht, target) in iterate,
\* which returns before it when the route set is empty
checkAndRefreshTimeForBucket(times, hasContacts, target, now) ==
    IF hasContacts THEN [times EXCEPT ![IndexOf(target)] = now] ELSE times

InitRf ==
    /\ rfPc = "idle"
    /\ rfNow = 0
    /\ refreshTimes = [i \in 0..(KeyBitSize - 1) |-> 0]
    /\ rfI = 0
    /\ rfContacts = FALSE
    /\ rfLast = NoRefresh

\* the ticker fires: selectTicker enters `case <-ticker.C`
SweepTick ==
    /\ rfPc = "idle"
    /\ rfNow < MaxClock
    /\ rfNow' = rfNow + 1
    /\ rfPc' = "sweep"
    /\ rfI' = 0
    /\ rfLast' = NoRefresh
    /\ UNCHANGED <<refreshTimes, rfContacts>>
    /\ UNCHANGED notRf

\* one pass of `for i := 0; i < routing.KeyBitSize; i++`
RefreshBucket ==
    /\ rfPc = "sweep"
    /\ rfI < KeyBitSize
    /\ rfI' = rfI + 1
    /\ IF rfNow - refreshTimes[rfI] > RefreshTime
       THEN \E id1 \in GetRandomIDFromBucket(SweepBucket(rfI)) :
               /\ refreshTimes' =
                     checkAndRefreshTimeForBucket(refreshTimes, rfContacts, id1, rfNow)
               /\ rfLast' = [bucket |-> rfI, target |-> id1]
       ELSE UNCHANGED <<refreshTimes, rfLast>>
    /\ UNCHANGED <<rfPc, rfNow, rfContacts>>
    /\ UNCHANGED notRf

\* the loop is over (replication and expiration are not in this part)
SweepEnd ==
    /\ rfPc = "sweep"
    /\ rfI = KeyBitSize
    /\ rfPc' = "idle"
    /\ UNCHANGED <<rfNow, refreshTimes, rfI, rfContacts, rfLast>>
    /\ UNCHANGED notRf

\* addNode puts the first contact into the routing table
FirstContactAdded ==
    /\ ~rfContacts
    /\ rfContacts' = TRUE
    /\ UNCHANGED <<rfPc, rfNow, refreshTimes, rfI, rfLast>>
    /\ UNCHANGED notRf

NextRf ==
    \/ SweepTick
    \/ RefreshBucket
    \/ SweepEnd
    \/ FirstContactAdded

(***************************************************************************)
(* The specifications.                                                     *)
(***************************************************************************)
InitAll == InitStop /\ InitTable /\ InitAuth /\ InitIter /\ InitBoot /\ InitXor /\ InitRole /\ InitExp /\ InitFwd /\ InitMh /\ InitRn /\ InitRoi /\ InitBs /\ InitAcc /\ InitDp /\ InitKon /\ InitRo /\ InitPm /\ InitFp /\ InitGd /\ InitRf

SpecStop == InitAll /\ [][NextStop]_vars

SpecTable == InitAll /\ [][NextTable]_vars

SpecAuth == InitAll /\ [][NextAuth]_vars

SpecAuthOpen == InitAll /\ [][NextAuthOpen]_vars

SpecIter == InitAll /\ [][NextIter]_vars

\* sendPacketToAlphaNodes when SendRequest fails for no node
SendPacketToAlphaNodesSent ==
    SendPacketToAlphaNodes /\ removeFromRouteSet' = removeFromRouteSet

\* the rest of the pass when SendRequest fails for no STORE
IterateRoundSent ==
    IterateRound /\ (iterPc' = "panic" => routeSet' = <<>>)

\* the steps of iterate when every request is sent, so that it is answered
\* or times out
NextIterLive ==
    \/ \E id \in Peers : BootstrapPingResponse(id)
    \/ \E t \in IterateTypes :
          \E tgt \in IF t = "IterateBootstrap" THEN {OriginID} ELSE Targets : Iterate(t, tgt)
    \/ SendPacketToAlphaNodesSent
    \/ \E p \in Peers : FutureResult(p)
    \/ \E p \in Peers : FutureTimeout(p)
    \/ CollectorTimeout
    \/ \E p \in Peers : StaleGoroutineSends(p)
    \/ \E p \in Peers : StaleGoroutineEnds(p)
    \/ IterateRoundSent

\* iterate under weak fairness: a step of the call or of its goroutines that
\* can be taken is taken (timers fire, the scheduler runs every goroutine)
SpecIterLive == InitAll /\ [][NextIterLive]_vars /\ WF_vars(NextIterLive)

SpecBoot == InitAll /\ [][NextBoot]_vars

SpecXor == InitAll /\ [][NextXor]_vars

SpecRole == InitAll /\ [][NextRole]_vars

SpecExp == InitAll /\ [][NextExp]_vars

SpecFwd == InitAll /\ [][NextFwd]_vars

SpecMh == InitAll /\ [][NextMh]_vars

SpecRn == InitAll /\ [][NextRn]_vars

SpecRoi == InitAll /\ [][NextRoi]_vars

SpecBs == InitAll /\ [][NextBs]_vars

SpecAcc == InitAll /\ [][NextAcc]_vars

SpecDp == InitAll /\ [][NextDp]_vars

SpecKon == InitAll /\ [][NextKon]_vars

SpecRo == InitAll /\ [][NextRo]_vars

SpecPm == InitAll /\ [][NextPm]_vars

SpecFp == InitAll /\ [][NextFp]_vars

SpecGd == InitAll /\ [][NextGd]_vars

SpecRf == InitAll /\ [][NextRf]_vars

(***************************************************************************)
(* The claims.                                                             *)
(***************************************************************************)
\* C1: when an IterateFindValue query has returned and a node it contacted
\* answered with a value, iterate returns a value and Get reports that the
\* key exists.
C1_FoundValueReturned ==
    (iterPc = "done" /\ iterType = "IterateFindValue" /\ valueSeen)
    => (retValue # NoValue /\ GetExists(retValue))

\* C2: when an IterateStore query that started with a route set that was not
\* empty (it has addressed a request to some node) has returned, a STORE
\* request was sent to each of the (at most MaxContactsInBucket) closest
\* nodes of its final route set.
C2_StoreSentToClosest ==
    (iterPc = "done" /\ iterType = "IterateStore" /\ contacted # {})
    => Range(FirstN(SortByDistance(Range(routeSet), iterTarget), MaxContactsInBucket))
            \subseteq storeSent

\* C3: node A has sent Auth(Begin) to node B, which knows A, and no timeout
\* has fired: once A has stored the key B sent for this handshake and B's
\* CheckOrigin exchange with A is over (no CheckOrigin packet between them
\* is in flight), A is authenticated at B, whichever of the Auth response
\* and the CheckOrigin request A handled first.
C3_AuthenticatedAfterHandshake ==
    \A a, b \in Nodes :
        (/\ a # b
         /\ timeouts = 0
         /\ a \in knownNodes[b]
         /\ ReceivedKeys[a][b] # NoKey
         /\ SentKeys[b][a] = ReceivedKeys[a][b]
         /\ ~\E r \in requests : r.type = "CheckOrigin" /\ r.from = b /\ r.to = a
         /\ ~\E r \in responses : r.type = "CheckOrigin" /\ r.from = a /\ r.to = b)
        => a \in authenticatedNodes[b]

\* C4: node B sets authenticatedNodes[A] to true only in a step that handles
\* a CheckOrigin response of A whose key is a key B generated and holds in
\* SentKeys[A]; a response with no key or another key never authenticates A.
C4_AuthenticatedOnlyByGeneratedKey ==
    [][\A a, b \in Nodes :
          (a \notin authenticatedNodes[b] /\ a \in authenticatedNodes'[b])
          => \E rsp \in responses :
                /\ rsp \notin responses'
                /\ rsp.type = "CheckOrigin" /\ rsp.from = a /\ rsp.to = b
                /\ rsp.key # NoKey
                /\ rsp.key = SentKeys[b][a]
      ]_vars

\* C5: a Relay request (start or stop) of a sender that is not authenticated
\* at the receiver, taken by the receiver's packet loop (the request leaves
\* the network and no caller's wait ends), is answered with state NoAuth, and
\* the receiver's relay clients and routing table stay as they were.
C5_UnauthenticatedRelayRefused ==
    [][\A n \in Nodes : \A req \in requests :
          (/\ req.to = n /\ req.type = "Relay"
           /\ requests' = requests \ {req}
           /\ waiting' = waiting
           /\ req.from \notin authenticatedNodes[n])
          => /\ relayClients'[n] = relayClients[n]
             /\ knownNodes'[n] = knownNodes[n]
             /\ req.live =>
                    Response(req, FALSE, NoKey, "NoAuth", "code") \in responses'
      ]_vars

\* C5 witness: a NoAuth answer to a Relay request is on its way to a sender
\* that is not authenticated at the answering node, which relays for nobody.
C5_Witness ==
    \E rsp \in responses :
        /\ rsp.type = "Relay" /\ rsp.state = "NoAuth"
        /\ rsp.to \notin authenticatedNodes[rsp.from]
        /\ relayClients[rsp.from] = {}
        /\ rsp.to \notin knownNodes[rsp.from]

\* C6: in every reachable state every relay client of a node is
\* authenticated at that node.
C6_RelayClientsAuthenticated ==
    \A n \in Nodes : relayClients[n] \subseteq authenticatedNodes[n]

\* C7: for nodes A and B, once A holds a key of B, B's authenticatedNodes[A]
\* is true if and only if ReceivedKeys[B] at A equals SentKeys[A] at B.
C7_AuthenticatedIffKeysEqual ==
    \A a, b \in Nodes :
        (a # b /\ ReceivedKeys[a][b] # NoKey)
        => ((a \in authenticatedNodes[b]) <=> (ReceivedKeys[a][b] = SentKeys[b][a]))

\* C7 as amended: B's authenticatedNodes[A] turns true only in a step before
\* which ReceivedKeys[B] at A holds a key equal to SentKeys[A] at B, and the
\* step deletes SentKeys[A]: the stored keys are equal when authentication
\* is granted, not while it lasts.
C7_AuthenticatedOnKeyMatch ==
    [][\A a, b \in Nodes :
          (a \notin authenticatedNodes[b] /\ a \in authenticatedNodes'[b])
          => /\ ReceivedKeys[a][b] # NoKey
             /\ ReceivedKeys[a][b] = SentKeys[b][a]
             /\ SentKeys'[b][a] = NoKey
      ]_vars

\* C7 witness: A is authenticated at B after a key match; A still holds the
\* key and B has deleted it.
C7_Witness ==
    \E a, b \in Nodes :
        /\ a \in authenticatedNodes[b]
        /\ ReceivedKeys[a][b] # NoKey
        /\ SentKeys[b][a] = NoKey

\* C8: under any interleaving of concurrent addNode calls on one routing
\* table, no bucket holds two contacts with the same NodeID.
C8_NoDuplicateContact ==
    \A b \in DOMAIN RoutingTable :
        \A i, j \in 1..Len(RoutingTable[b]) :
            RoutingTable[b][i] = RoutingTable[b][j] => i = j

\* C9: when addNode finds the bucket of a new contact full, the bucket is
\* left as it was if the head's ping response arrived; the bucket changes
\* only if no response arrived, and then the head is removed and the new
\* contact appended at the tail, the other contacts keeping their order.
C9_FullBucketPingPolicy ==
    [][\A g \in Callers :
          LET idx == IndexOf(addArg[g])
              bucket == RoutingTable[idx]
          IN  (/\ addPc[g] \in {"lock", "ping"}
               /\ addPc'[g] = "idle"
               /\ Len(bucket) = MaxContactsInBucket)
              => /\ pong[g] => RoutingTable' = RoutingTable
                 /\ ~pong[g] =>
                        RoutingTable' = [RoutingTable EXCEPT ![idx] =
                                            Append(Tail(bucket), addArg[g])]
      ]_vars

\* C9 witness: one addNode on a full bucket has ended with the head kept
\* after its ping response, another with the head evicted after the timeout
\* and the new contact at the tail.
C9_Witness ==
    \E g, h \in Callers :
        /\ addPc[g] = "idle" /\ addResult[g] = "kept"
        /\ addPc[h] = "idle" /\ addResult[h] = "evicted"
        /\ LET bucket == RoutingTable[IndexOf(addArg[h])]
           IN  Len(bucket) = MaxContactsInBucket /\ bucket[Len(bucket)] = addArg[h]

\* C10: after Disconnect, with both background loops of Listen running
\* (both have registered on the start channel), once handleDisconnect has
\* handed out its stop signals and closed the transport, handlePackets and
\* handleStoreTimers have both exited.
C10_LoopsExitedWhenClosed ==
    (hdPc = "done" /\ multiplexCount = Cardinality(Loops))
        => \A l \in Loops : loopPc[l] = "done"

\* C11: when BootstrapDiscovery has returned without an error, no two
\* genesis responses it received carry the same NodeID or the same ShortID
\* (two such responses make it fail with a collision error), and no two
\* active nodes of the NodeKeeper share a ShortID or a NodeID.
C11_NoCollisionAfterDiscovery ==
    (bdPc = "done" /\ bdResult = "nil")
    => /\ \A i, j \in 1..Len(genesisResults) :
              i # j => /\ genesisResults[i].id # genesisResults[j].id
                       /\ genesisResults[i].sid # genesisResults[j].sid
       /\ \A i, j \in DOMAIN activeNodes : i # j => activeNodes[i] # activeNodes[j]

\* C12: under every interleaving of SetLastPulse calls bootstrapLock is
\* closed once and never twice, by the first call, whose pulse is the stored
\* one until forceSetLastPulse; a step of a SetLastPulse call made after the
\* pulse was persisted changes neither the gate nor lastPulse; every
\* GetLastPulse of the goroutine that passed the gate reads the pulse the
\* first call stored.
C12_GateClosedOnceByFirstCall ==
    /\ [](/\ bootstrapLock # "panic"
          /\ bootstrapLock = "closed"
             => /\ closedBy = firstCaller
                /\ firstNumber \in Pulses
                /\ bdPc \in {"idle", "gate", "genesis", "force"} => lastPulse = firstNumber
          /\ bdPc \notin {"idle", "gate"} /\ hosts # {} => ownLastPulse = firstNumber
          /\ \A i \in 1..Len(sentLastPulse) : sentLastPulse[i] = firstNumber)
    /\ [][(pulsePersisted /\ setPc' # setPc)
          => (lastPulse' = lastPulse /\ bootstrapLock' = bootstrapLock
              /\ pulsePersisted')]_vars

C12_Witness ==
    /\ bootstrapLock = "closed"
    /\ pulsePersisted
    /\ \E c \in Setters : setPc[c] = "locked" /\ setArg[c] # lastPulse /\ c # firstCaller
    /\ Len(sentLastPulse) > 0

\* C13: after BootstrapDiscovery has returned without an error with at least
\* one other discovery node, lastPulse (what GetLastPulse returns) is the
\* maximum of the node's own last pulse and the LastPulse of every genesis
\* response received.
C13_LastPulseIsMaximum ==
    (bdPc = "done" /\ bdResult = "nil" /\ hosts # {})
    => LET all == {ownLastPulse} \cup
                  {genesisResults[i].lastPulse : i \in 1..Len(genesisResults)}
       IN  /\ lastPulse \in all
           /\ \A x \in all : x <= lastPulse

C13_Witness ==
    /\ bdPc = "done" /\ bdResult = "nil" /\ hosts # {}
    /\ \E i \in 1..Len(genesisResults) : genesisResults[i].lastPulse > ownLastPulse
    /\ \E c \in Setters : setPc[c] = "locked" /\ setArg[c] # lastPulse

\* C16: circleXOR(x, s) with a non-empty s returns a slice as long as x;
\* when len(x) is a multiple of len(s), circleXOR(circleXOR(x, s), s) is x;
\* x and s hold after the call what they held before.
C16_CircleXORInvolution ==
    (xorPc = "returned" /\ Len(xorArgs[2]) > 0)
    => /\ Len(xorResult) = Len(xorArgs[1])
       /\ Len(xorArgs[1]) % Len(xorArgs[2]) = 0 => xorAgain = xorArgs[1]
       /\ xorValue = xorArgs[1]
       /\ xorSrc = xorArgs[2]

C16_Witness ==
    /\ xorPc = "returned"
    /\ Len(xorArgs[2]) > 0
    /\ Len(xorArgs[1]) = 2 * Len(xorArgs[2])
    /\ xorResult # xorArgs[1]
    /\ xorAgain = xorArgs[1]

\* the orders in which GetActiveNodesByRole can return the same candidates
OrdersOf(candidates) ==
    {[i \in 1..Len(candidates) |-> candidates[p[i]]] :
        p \in Permutations(1..Len(candidates))}

\* C14: what QueryRole returned for a role, an object and a pulse is what
\* it returns for the same candidates in every other order
\* GetActiveNodesByRole can return them in.
C14_QueryRoleOrderIndependent ==
    rolePc = "returned"
    => \A other \in OrdersOf(roleCandidates) :
          QueryRole(roleRole, roleObjID, other, roleEntropy) = roleResult

C14_Witness ==
    /\ rolePc = "returned"
    /\ ~roleResult.err
    /\ Len(roleCandidates) >= 3
    /\ roleCandidates # SortByID(roleCandidates)
    /\ roleRole = "LightValidator"

C17_RevokeRestoresAuthState ==
    /\ nextKey = 1
       => \A n, m \in Nodes :
             /\ SentKeys[n][m] = NoKey /\ ReceivedKeys[n][m] = NoKey
             /\ authenticatedNodes[n] = {}
    /\ (/\ nextKey = 2
        /\ \A n, m \in Nodes : SentKeys[n][m] = NoKey
        /\ \A n \in Nodes : authenticatedNodes[n] = {}
        /\ \A n \in Nodes, g \in Goroutines : waiting[n][g] = Idle)
       => \A n, m \in Nodes : ReceivedKeys[n][m] = NoKey

\* a step in which RelayRequest of node n takes the response rsp from its future
RelayResponseHandled(n, rsp) ==
    /\ waiting[n]["api"] # Idle /\ waiting[n]["api"].type = "Relay"
    /\ waiting'[n]["api"] = Idle
    /\ timeouts' = timeouts
    /\ rsp \in responses /\ rsp \notin responses'
    /\ rsp.to = n /\ rsp.g = "api" /\ rsp.type = "Relay"

\* C18: once a start for T answered Started was followed by a stop for T
\* answered Stopped, the proxy list of the initiator is what it was before
\* the start; a response with state NoAuth, Unknown or Error makes
\* RelayRequest return an error and leaves the proxy list as it is.
C18_StartStopRestoresProxyList ==
    /\ [](\A n \in Nodes : relayTrail[n].step = "stopped"
                           => proxyNodes[n] = relayTrail[n].before)
    /\ [][\A n \in Nodes : \A rsp \in responses :
             (RelayResponseHandled(n, rsp) /\ rsp.state \in {"NoAuth", "Unknown", "Error"})
             => (proxyNodes'[n] = proxyNodes[n] /\ RelayError(rsp.state) # "nil")
         ]_vars

\* C18, amended: the proxy list after the stop is the list before the start
\* without T: it is the list before the start when T was not in it.
C18_StartStopRemovesTarget ==
    /\ [](\A n \in Nodes :
             relayTrail[n].step = "stopped"
             => /\ proxyNodes[n] = relayTrail[n].before \ {relayTrail[n].to}
                /\ relayTrail[n].to \notin relayTrail[n].before
                   => proxyNodes[n] = relayTrail[n].before)
    /\ [][\A n \in Nodes : \A rsp \in responses :
             (RelayResponseHandled(n, rsp) /\ rsp.state \in {"NoAuth", "Unknown", "Error"})
             => (proxyNodes'[n] = proxyNodes[n] /\ RelayError(rsp.state) # "nil")
         ]_vars

C18_Witness ==
    \E n \in Nodes :
        /\ relayTrail[n].step = "stopped"
        /\ relayTrail[n].to \notin relayTrail[n].before
        /\ proxyNodes[n] = relayTrail[n].before
        /\ n \notin relayClients[relayTrail[n].to]

\* the score of the call
ExpScore == ScoreOf(expSizes, GetBucketIndexFromDifferingBit(expKey, OriginID), expCloser)

\* C20: getExpirationTime returns now + ExpirationTime for every score that
\* is MaxContactsInBucket or more, and for the score 0 what it returns for
\* the score 1.
C20_FullScoreGivesExpirationTime ==
    expPc = "returned"
    => /\ ExpScore >= MaxContactsInBucket => expResult = expNow + expExpiration
       /\ ExpScore = 0 => expResult = ExpirationTimeOf(1, expExpiration, expNow)

\* C19: a packet handled by handlePackets whose receiver ID is not one of
\* the origin's IDs and whose sender address is in the relay table is
\* forwarded, when FindNode resolves its receiver, to the node found, with
\* its Type, RequestID, Data and the ID of its sender.
C19_ForeignPacketOfClientForwarded ==
    (/\ fwdPc # "idle"
     /\ fwdMsg.receiver.id \notin OriginIDs
     /\ NeedToRelay(fwdClients, fwdMsg.sender.address)
     /\ fwdFound \in TargetAddresses)
    => /\ fwdRequest # NoRequest
       /\ fwdRequest.receiver.address = fwdFound
       /\ fwdRequest.type = fwdMsg.type
       /\ fwdRequest.requestID = fwdMsg.requestID
       /\ fwdRequest.data = fwdMsg.data
       /\ fwdRequest.sender.id = fwdMsg.sender.id

\* C21: ExtractTarget and ExtractRole answer on the same messages: a
\* message, wrapped in Parcels or not, for which ExtractRole returns a role
\* has a target from ExtractTarget and no panic, and the reverse.
C21_ExtractTargetTotalWhereExtractRoleIs ==
    mhPc = "done" => ((mhRole # Panic) <=> (mhTarget # Panic))

\* C22: GetRandomNodes(count) returns at most count hosts, and fewer than
\* count only when there are fewer than count active nodes.
C22_AtMostCountHosts ==
    rnPc = "returned"
    => /\ Len(rnResult) <= rnCount
       /\ Len(rnResult) < rnCount => Len(rnNodes) < rnCount

\* an AddID of caller g returns in this step
AddIDReturns(g) == addIDPc[g] = "locked" /\ addIDPc'[g] = "idle"

\* C23: whatever the interleaving of the AddID calls, GetObjects holds
\* exactly the ids added since they were last cleared, each once; an AddID
\* leaves its id with the TTL DefaultTTL, adds no entry for an id that has
\* one, touches no other entry, and never changes the pending requests.
C23_AddIDKeepsDistinctIDs ==
    /\ [](KeysOf(GetObjects(recentObjects)) = addedIDs)
    /\ [][\A g \in IndexCallers :
            AddIDReturns(g) =>
              /\ recentObjects'[addIDArg[g]] # NoMeta
              /\ metaTTL'[recentObjects'[addIDArg[g]]] = defaultTTL
              /\ recentObjects[addIDArg[g]] # NoMeta => recentObjects' = recentObjects
              /\ \A id \in RecordIDs \ {addIDArg[g]} :
                    /\ recentObjects'[id] = recentObjects[id]
                    /\ recentObjects[id] # NoMeta
                         => metaTTL'[recentObjects[id]] = metaTTL[recentObjects[id]]
              /\ pendingRequests' = pendingRequests]_vars

\* both callers have added, every id is in the index, and the last AddID
\* found its id present with a TTL lowered since
C23_Witness ==
    /\ addedIDs = RecordIDs
    /\ \A g \in IndexCallers : addIDPc[g] = "idle" /\ addIDArg[g] # 0
    /\ addIDArg["c1"] # addIDArg["c2"]
    /\ lastAddID = "lowered"
    /\ \E g \in IndexCallers : metaTTL[recentObjects[addIDArg[g]]] = defaultTTL
    /\ pendingRequests # {}

\* C24: in every round of an iterative query, a round in queryRest mode
\* included, at most ParallelCalls requests are sent and wait for their
\* response at once.
C24_AtMostAlphaRequestsPerRound ==
    /\ futuresCount <= ParallelCalls
    /\ Cardinality(pending) <= ParallelCalls

\* the round that waits in selectResultChan ends, outside queryRest mode,
\* with a route set whose first node is still closestNode and which holds
\* a node not contacted yet
RoundEndsWithClosestUnchanged ==
    LET cf == checkFuturesCountAndGo(iterType, queryRest, routeSet, futuresCount,
                                     results, iterTarget)
        sorted == SortByDistance(Range(cf.routeSet), iterTarget)
    IN  /\ iterPc = "selected"
        /\ ~queryRest
        /\ cf.err = "do nothing"
        /\ Len(sorted) > 0
        /\ sorted[1] = closestNode
        /\ Range(sorted) \ contacted # {}

\* C25: whatever the kind of the query, a round that ends with the closest
\* node unchanged puts the query in queryRest mode and the query goes on to
\* send to the uncontacted members of the route set: it does not return.
C25_QueryRestBeforeReturn ==
    [][(RoundEndsWithClosestUnchanged /\ iterPc' # "selected" /\ stale' = stale)
         => (queryRest' /\ iterPc' = "send")]_vars

\* C26: when an iterative query has returned, no node whose response
\* carried an error and no node the request could not be sent to is in its
\* route set or in the closest list it returns; and a step that changes the
\* route set leaves every bucket of the routing table as it is.
C26_ErroredNodesLeaveRouteSetOnly ==
    /\ [](iterPc = "done"
           => \A n \in errored \cup removeFromRouteSet :
                  n \notin Range(routeSet) /\ n \notin Range(retClosest))
    /\ [][routeSet' # routeSet => RoutingTable' = RoutingTable]_vars

\* C27: when Bootstrap has returned without an error, IterateBootstrap was
\* run for every routing table that holds a contact, with the origin ID of
\* that table as its target, and for no other table.
C27_EveryNonEmptyTableIterated ==
    (bsPc = "returned" /\ bsErr = "nil")
    => bsIterated = {[table |-> i, target |-> TableOrigin(i)] :
                        i \in {j \in DOMAIN bsTables : NumNodes(bsTables, j) > 0}}

\* C28: no handler holds a lock while it sends a packet or waits for a
\* response; for addNode: a caller whose ping of the bucket head is sent
\* and waits for the response does not hold the lock of the routing table.
C28_NoLockHeldWhilePinging ==
    \A g \in Callers : addPc[g] = "ping" => htLock # g

\* C29: a goroutine reads or writes authenticatedNodes, SentKeys or
\* ReceivedKeys only while it holds dht.auth.mut, and no two goroutines are
\* in an access of the same map at once.
C29_AuthMapsUnderMutex ==
    /\ \A g \in Goroutines : accessing[g] # "none" => authMut = g
    /\ \A g, h \in Goroutines :
          (g # h /\ accessing[g] # "none") => accessing[g] # accessing[h]

\* C30: after a Ping request is handled, an empty acknowledgement was sent
\* and the sender is a contact of the routing table, the last (most
\* recently seen) of its bucket.
C30_PingRefreshesSender ==
    dpMsg.type = "TypePing"
    => /\ dpResponse = EmptyAck
       /\ dpTable[IndexOf(dpMsg.sender)] # <<>>
       /\ dpTable[IndexOf(dpMsg.sender)][Len(dpTable[IndexOf(dpMsg.sender)])] = dpMsg.sender

\* C31: every Auth(Begin) and StartRelay request that handleKnownOuterNodes
\* sends is addressed to the peer the response names as holding the highest
\* count (the response's ID).
C31_AuthAndRelayAddressedToNamedPeer ==
    \A r \in konSent : r.target = r.named

\* C32: a static node (one subnet entry, no home subnet key) never fails in
\* sendRelayOwnership, and when AnalyzeNetwork has returned every peer ID of
\* the subnet was offered relay ownership and PossibleRelayIDs holds exactly
\* the peers that accepted.
C32_StaticNodeOffersToEveryPeer ==
    /\ roPc # "panicked"
    /\ (roPc = "returned" /\ IsStatic)
       => /\ roOffered = SubnetIDs["ip1"]
          /\ Range(PossibleRelayIDs) = roAccepted

\* C33: in every call of OnPulse the phases run are a prefix of 1, 2, 3;
\* when phase 1 failed OnPulse returns an error after phase 1 alone, and
\* otherwise it returns nil after all three phases, whatever phases 2 and 3
\* returned.
C33_PhasesInOrderOnlyPhase1Fatal ==
    /\ \E n \in 0..3 : pmPhases = SubSeq(<<1, 2, 3>>, 1, n)
    /\ pmPc = "returned"
       => IF 1 \in pmFailed
          THEN pmOnPulse # NilError /\ pmPhases = <<1>>
          ELSE pmOnPulse = NilError /\ pmPhases = <<1, 2, 3>>

C33_Witness ==
    /\ pmPc = "returned"
    /\ pmFailed = {2, 3}
    /\ pmPhases = <<1, 2, 3>>
    /\ pmOnPulse = NilError

\* C34: phase 1 does not fail on a received packet, and when it has
\* returned every sender of a packet is in exactly one of ValidProofs and
\* FaultProofs, in ValidProofs if and only if the unsync list knows it and
\* its proof is valid, never when the packet's own signature did not verify.
C34_ProofsPartitioned ==
    /\ fpPc # "panicked"
    /\ fpPc = "returned"
       => /\ ValidProofs \cap FaultProofs = {}
          /\ ValidProofs \cup FaultProofs = DOMAIN resultPackets
          /\ \A ref \in DOMAIN resultPackets :
                /\ ref \in ValidProofs
                   <=> (resultPackets[ref].known /\ resultPackets[ref].proofValid)
                /\ resultPackets[ref].sign # "right" => ref \notin ValidProofs
          /\ Cardinality(ValidProofs) + Cardinality(FaultProofs)
                = Cardinality(DOMAIN resultPackets)

\* C36: whenever a round of iterate goes on to the progress check
\* (checkFuturesCountAndGo returned "do nothing", so sort.Sort and
\* iterateIsDone are next) the route set is not empty, with queryRest on or
\* off.
C36_RouteSetNotEmptyAtProgressCheck ==
    iterPc = "selected"
    => LET cf == checkFuturesCountAndGo(iterType, queryRest, routeSet,
                                        futuresCount, results, iterTarget)
       IN  cf.err = "do nothing" => Len(cf.routeSet) > 0

C36_Witness ==
    /\ iterPc = "selected"
    /\ queryRest
    /\ removeFromRouteSet # {}
    /\ ErrorSenders(futuresCount, results) # {}
    /\ LET cf == checkFuturesCountAndGo(iterType, queryRest, routeSet,
                                        futuresCount, results, iterTarget)
       IN  cf.err = "do nothing" /\ Len(cf.routeSet) = 1

\* the loop of iterate ends: the call returns or the process has panicked
IterateLoopEnds == (iterPc = "send") ~> (iterPc \in {"done", "panic"})

\* C35: every call of iterate returns after finitely many rounds, for each
\* of the four query kinds, when every request is answered or times out.
C35_IterateReturns == (iterPc = "send") ~> (iterPc = "done")

\* C37: in no step does a goroutine of setUpResultChan send its result on a
\* result channel that the collector has closed.
C37_NoSendOnClosedChannel ==
    [][~(iterPc' = "panic" /\ stale' # stale)]_vars

\* C39: when BootstrapDiscovery has returned an error the active nodes are
\* the ones before the call and lastPulse is the value it had when the call
\* passed the gate (no SetLastPulse changes it after that).
C39_ErrorLeavesStateUnchanged ==
    (bdPc = "done" /\ bdResult # "nil")
    => /\ activeNodes = [i \in {OriginNode.id} |-> OriginNode.sid]
       /\ lastPulse = ownLastPulse

\* C38: after Bootstrap got its host no goroutine of
\* getDiscoveryNodesChannel is left at its send with the buffer of the
\* channel full: nobody receives from the channel any more, so such a
\* goroutine never terminates.
C38_NoGoroutineBlockedOnSend ==
    ~(/\ waitPc = "returned"
      /\ bootstrapHost # NoHost
      /\ Len(bootstrapHosts) = needResponses
      /\ \E d \in DiscoveryHosts : gdPc[d] = "send")

\* C40: the target of the IterateBootstrap the sweep ran for a stale bucket
\* lies in that bucket, and the refresh time of the bucket is the time of
\* the tick, so that the next tick does not find it stale.
C40_SweepRefreshesStaleBucket ==
    rfLast.bucket # NoBucket
    => /\ IndexOf(rfLast.target) = rfLast.bucket
       /\ refreshTimes[rfLast.bucket] = rfNow

====
